---- MODULE Spec2Model ----
(***************************************************************************)
(* A model of cromwell-tools: the client of the Cromwell REST API.         *)
(*                                                                         *)
(* Part 1, CromwellAPI.wait (cromwell_api.py): the polling loop, one       *)
(* action per clock reading, status request and sleep.                     *)
(* Part 2, the HTTP operations of CromwellAPI: the single-request          *)
(* operations, submit of cromwell_api.py, and the retry-decorated submit   *)
(* of the older _cromwell_api.py.                                          *)
(***************************************************************************)
EXTENDS Integers, Sequences, FiniteSets, TLC

(***************************************************************************)
(* Bounds of the model.                                                    *)
(***************************************************************************)
\* longest list of workflow ids given to wait
MaxIds == 2
\* polling rounds the model follows within one call of wait
MaxRounds == 3
\* largest timeout_minutes given to wait
MaxTimeoutMinutes == 1
\* the wall clock is read in steps of Granule seconds
Granule == 30
\* poll_interval_seconds is 0, Granule, ..., MaxPollGranules * Granule
MaxPollGranules == 3

\* timedelta(minutes=...) against datetime differences: seconds in a minute
SecondsPerMinute == 60

Min(a, b) == IF a <= b THEN a ELSE b

\* The clock saturates here: beyond every timeout counted from every start.
MaxClock == Granule + SecondsPerMinute * MaxTimeoutMinutes + Granule

(***************************************************************************)
(* Statuses and responses of the status endpoint.                          *)
(***************************************************************************)
_failed_statuses == {"Failed", "Aborted", "Aborting"}

\* statuses a 200 response of the status endpoint may carry
Statuses == {"Submitted", "Running", "Succeeded"} \cup _failed_statuses

\* response.status_code of the responses the model draws
StatusCodes == {200, 500}

\* a response: its status_code and the 'status' of its JSON body
\* (a response that is not 200 is never parsed: its body is "-")
Responses ==
    [status_code : {200}, status : Statuses]
      \cup [status_code : StatusCodes \ {200}, status : {"-"}]

VARIABLES
    workflow_ids,           \* wait: the list of workflow ids
    timeout_minutes,        \* wait: the timeout argument
    poll_interval_seconds,  \* wait: the poll interval argument
    now,                    \* the wall clock, in seconds
    w,                      \* the call of wait under observation
    wq,                     \* the same call with verbose negated, given the
                            \* same responses and the same clock readings
    auth,                   \* the call that builds a CromwellAuth object, the
                            \* object it built and the reads of its header
    urlv,                   \* the call of CromwellAuth._validate_url
    mf,                     \* the call of utilities.prepare_workflow_manifest
    opt,                    \* the call of
                            \* utilities.compose_oauth_options_for_jes_backend_cromwell
    call                    \* the call of an operation of CromwellAPI other
                            \* than wait: the last one, ended or under retry

waitVars == <<workflow_ids, timeout_minutes, poll_interval_seconds, now, w, wq>>

apiVars == <<call>>

authVars == <<auth, urlv>>

utilVars == <<mf, opt>>

vars == <<waitVars, apiVars, authVars, utilVars>>

(***************************************************************************)
(* CromwellAPI.wait                                                        *)
(***************************************************************************)

\* The state of a call after `start = datetime.now()` and
\* `timeout = timedelta(minutes=int(timeout_minutes))`.
\*   pc            position: "check" (top of the while loop), "poll" (in the
\*                 for loop, before the status request of workflow_ids[i]),
\*                 "sleep" (before time.sleep), "done"
\*   round, nreq, sleeps, log, printed: what the call did so far: rounds begun,
\*                 status requests issued, sleeps made, the requests and
\*                 responses of the current round, the lines printed in it
\*   only_running  whether every response so far was a 200 with a status
\*                 that is not terminal
\*   succeeded     the ids that returned Succeeded so far (the call itself
\*                 keeps no such record: it is here for the properties)
WaitBegin(verbose, t, timeout_min) ==
    [ pc            |-> "check",
      verbose       |-> verbose,
      start         |-> t,
      timeout       |-> SecondsPerMinute * timeout_min,
      all_succeeded |-> TRUE,
      i             |-> 1,
      round         |-> 0,
      nreq          |-> 0,
      sleeps        |-> 0,
      log           |-> << >>,
      printed       |-> << >>,
      only_running  |-> TRUE,
      succeeded     |-> {},
      outcome       |-> "running" ]

\* raise: the call ends with the exception `exc`
Raise(s, exc) == [s EXCEPT !.pc = "done", !.outcome = exc]

\* print(line)
PrintLine(s, line) == [s EXCEPT !.printed = Append(@, line)]

\* the lines wait prints
PollingLine == <<"--- polling from cromwell ---", 0, "-">>
StatusLine(uuid, status) == <<"Workflow %s returned status %s", uuid, status>>
SucceededLine == <<"All workflows succeeded!", 0, "-">>

\* (a slip: the return kept for a round that asked for a status)
AfterLoopAfterAPoll(s) ==
    IF s.all_succeeded /\ s.log # << >>
    THEN [PrintLine(s, SucceededLine) EXCEPT
              !.pc = "done", !.outcome = "returned"]
    ELSE [s EXCEPT !.pc = "sleep"]

\* (a slip: the return made to depend on verbose)
AfterLoopVerboseOnly(s) ==
    IF s.all_succeeded /\ s.verbose
    THEN [PrintLine(s, SucceededLine) EXCEPT
              !.pc = "done", !.outcome = "returned"]
    ELSE [s EXCEPT !.pc = "sleep"]

\* After the for loop: `if all_succeeded: print(...); return ''`, else the
\* call goes on to time.sleep.
AfterLoop(s) ==
    IF s.all_succeeded
    THEN [PrintLine(s, SucceededLine) EXCEPT
              !.pc = "done", !.outcome = "returned"]
    ELSE [s EXCEPT !.pc = "sleep"]

\* (a slip: the ids that returned Succeeded are left out of the later
\* requests)
NextIdNotYetSucceeded(s, ids) ==
    LET left == {j \in (s.i + 1)..Len(ids) : ids[j] \notin s.succeeded}
    IN  IF left # {}
        THEN [s EXCEPT !.i = CHOOSE j \in left : \A k \in left : j <= k]
        ELSE AfterLoop(s)

\* Leaving one iteration of the for loop: the next id, or the end of the loop.
NextId(s, ids) ==
    IF s.i < Len(ids)
    THEN [s EXCEPT !.i = @ + 1]
    ELSE AfterLoop(s)

\* (a slip: the timeout reached, not exceeded)
TimedOutAtLimit(s, t) == t - s.start >= s.timeout

\* `datetime.now() - start > timeout`
TimedOut(s, t) == t - s.start > s.timeout

\* The top of the while loop with the clock reading t: the timeout check, then
\* `all_succeeded = True`, the header line, and the for loop up to its first
\* status request (an empty list leaves the loop at once).
CheckStep(s, ids, t) ==
    IF TimedOut(s, t)
    THEN Raise(s, "Exception")
    ELSE LET r == [s EXCEPT !.all_succeeded = TRUE, !.i = 1,
                            !.round = @ + 1, !.log = << >>, !.printed = << >>]
             p == IF r.verbose
                  THEN PrintLine(r, PollingLine)
                  ELSE r
         IN  IF Len(ids) = 0 THEN AfterLoop(p) ELSE [p EXCEPT !.pc = "poll"]

\* a 200 response whose status is not a terminal one
NonTerminal(response) ==
    /\ response.status_code = 200
    /\ response.status \notin {"Succeeded"} \cup _failed_statuses

\* (a slip: a response that is not 200 read as one more status, as
\* get_workflow_statuses of cromwell_tools.py does with 'Unknown')
_parse_workflow_status_unknown(response) ==
    IF response.status_code # 200
    THEN "Unknown"
    ELSE response.status

\* _parse_workflow_status: the status of a 200 response; any other response
\* raises WorkflowUnknownError (shown as the value "WorkflowUnknownError").
_parse_workflow_status(response) ==
    IF response.status_code # 200
    THEN "WorkflowUnknownError"
    ELSE response.status

\* (a slip: the flag follows the last status alone)
MarkStatusLast(s, status) ==
    [s EXCEPT !.all_succeeded = (status = "Succeeded")]

\* (a slip: only 'Running' clears the flag)
MarkStatusRunningOnly(s, status) ==
    IF status = "Running" THEN [s EXCEPT !.all_succeeded = FALSE] ELSE s

\* `elif status != 'Succeeded': all_succeeded = False`
MarkStatus(s, status) ==
    IF status # "Succeeded" THEN [s EXCEPT !.all_succeeded = FALSE] ELSE s

\* (a slip: a failure status only clears the flag, and the loop goes on)
PollStepNoRaise(s, ids, response) ==
    LET uuid == ids[s.i]
        q == [s EXCEPT !.nreq = @ + 1,
                       !.log = Append(@, [uuid |-> uuid,
                                          status_code |-> response.status_code,
                                          status |-> response.status]),
                       !.only_running = @ /\ NonTerminal(response),
                       !.succeeded = IF response.status_code = 200
                                        /\ response.status = "Succeeded"
                                     THEN @ \cup {uuid}
                                     ELSE @]
        status == _parse_workflow_status(response)
    IN  IF status = "WorkflowUnknownError"
        THEN Raise(q, "WorkflowUnknownError")
        ELSE LET p == IF q.verbose THEN PrintLine(q, StatusLine(uuid, status)) ELSE q
             IN  NextId(MarkStatus(p, status), ids)

\* One iteration of the for loop: cls.status(uuid, auth) answered by
\* `response`, the parse, the verbose line, the failure test.
PollStep(s, ids, response) ==
    LET uuid == ids[s.i]
        q == [s EXCEPT !.nreq = @ + 1,
                       !.log = Append(@, [uuid |-> uuid,
                                          status_code |-> response.status_code,
                                          status |-> response.status]),
                       !.only_running = @ /\ NonTerminal(response),
                       !.succeeded = IF response.status_code = 200
                                        /\ response.status = "Succeeded"
                                     THEN @ \cup {uuid}
                                     ELSE @]
        status == _parse_workflow_status(response)
    IN  IF status = "WorkflowUnknownError"
        THEN Raise(q, "WorkflowUnknownError")
        ELSE LET p == IF q.verbose THEN PrintLine(q, StatusLine(uuid, status)) ELSE q
             IN  IF status \in _failed_statuses
                 THEN Raise(p, "WorkflowFailedError")
                 ELSE NextId(MarkStatus(p, status), ids)

\* time.sleep(poll_interval_seconds), then back to the top of the loop
SleepStep(s) == [s EXCEPT !.sleeps = @ + 1, !.pc = "check"]

\* (a slip: the sleep left out)
AfterNoSleep(t, d) == t

\* The clock after a sleep of d seconds that began at t.
AfterSleep(t, d) == Min(t + d, MaxClock)

InitWait ==
    /\ workflow_ids \in {[k \in 1..n |-> k] : n \in 0..MaxIds}
    /\ timeout_minutes \in 0..MaxTimeoutMinutes
    /\ poll_interval_seconds \in {k * Granule : k \in 0..MaxPollGranules}
    /\ now \in {0, Granule}
    /\ \E verbose \in BOOLEAN :
          /\ w = WaitBegin(verbose, now, timeout_minutes)
          /\ wq = WaitBegin(~verbose, now, timeout_minutes)

\* The wall clock advances while the call runs.
Tick ==
    /\ w.pc # "done"
    /\ now < MaxClock
    /\ now' = Min(now + Granule, MaxClock)
    /\ UNCHANGED <<workflow_ids, timeout_minutes, poll_interval_seconds, w, wq>>
    /\ UNCHANGED <<apiVars, authVars, utilVars>>

\* `datetime.now()` is read at the top of the while loop.
CheckTimeout ==
    /\ w.pc = "check"
    /\ TimedOut(w, now) \/ w.round < MaxRounds
    /\ w' = CheckStep(w, workflow_ids, now)
    /\ wq' = CheckStep(wq, workflow_ids, now)
    /\ UNCHANGED <<workflow_ids, timeout_minutes, poll_interval_seconds, now>>
    /\ UNCHANGED <<apiVars, authVars, utilVars>>

\* The status request of workflow_ids[i] and its response.
PollStatus ==
    /\ w.pc = "poll"
    /\ \E response \in Responses :
          /\ w' = PollStep(w, workflow_ids, response)
          /\ wq' = PollStep(wq, workflow_ids, response)
    /\ UNCHANGED <<workflow_ids, timeout_minutes, poll_interval_seconds, now>>
    /\ UNCHANGED <<apiVars, authVars, utilVars>>

\* time.sleep(poll_interval_seconds)
Sleep ==
    /\ w.pc = "sleep"
    /\ w' = SleepStep(w)
    /\ wq' = SleepStep(wq)
    /\ now' = AfterSleep(now, poll_interval_seconds)
    /\ UNCHANGED <<workflow_ids, timeout_minutes, poll_interval_seconds>>
    /\ UNCHANGED <<apiVars, authVars, utilVars>>


(***************************************************************************)
(* The HTTP operations of CromwellAPI                                      *)
(***************************************************************************)

\* longest run of one attempt of the retry-decorated submit, in seconds
MaxAttemptSeconds == 1

\* @retry(wait=wait_exponential(multiplier=1, max=10), stop=stop_after_delay(20))
RetryMultiplier == 1
RetryMaxWait == 10
RetryStopAfterDelay == 20

\* status codes of the responses the model draws for these operations
ApiStatusCodes == {200, 399, 400, 500, 599, 600}

\* response.text of a response
Texts == {"body_a", "body_b"}

\* what a request comes back with: a response, or a failure of the transport
\* raised by requests (no response)
Replies ==
    [kind : {"response"}, status_code : ApiStatusCodes, text : Texts]
      \cup [kind : {"ConnectionError"}, status_code : {0}, text : {""}]

\* no reply at all: nothing was sent
NoReply == [kind |-> "none", status_code |-> 0, text |-> ""]

\* (a slip: response.ok taken for "no server error")
OkBelowServerErrors(reply) == reply.status_code < 500

\* response.ok: raise_for_status() raises for 400 <= status_code < 600
Ok(reply) == ~(400 <= reply.status_code /\ reply.status_code < 600)

\* _check_and_raise_status: HTTPError for a response that is not ok
_check_and_raise_status(reply) ==
    IF ~Ok(reply) THEN "HTTPError" ELSE "none"

\* requests.exceptions.HTTPError('Error Code {0}: {1}'.format(
\*     response.status_code, response.text), response=response)
HTTPError(response) ==
    [message |-> <<"Error Code ", response.status_code, ": ", response.text>>,
     response |-> response]

\* no such error
NoError == [message |-> << >>, response |-> NoReply]

\* A call of `name` with its arguments, before anything is sent.
NewCall(name, args) ==
    [ name        |-> name,
      pc          |-> "called",
      args        |-> args,
      requests    |-> 0,
      status_code |-> 0,
      raise_for_status |-> FALSE,
      validated   |-> FALSE,
      received    |-> NoReply,
      response    |-> NoReply,
      error       |-> NoError,
      result      |-> "none" ]

\* no call made yet
NoCall == [NewCall("none", << >>) EXCEPT !.pc = "idle"]

\* the call rejected before anything is sent
Rejected(c, exc) == [c EXCEPT !.pc = "done", !.result = exc]

\* (a slip: a request that failed is sent once more)
RequestRetried(c, reply, raise_for_status) ==
    LET failed == reply.kind # "response" \/ ~Ok(reply)
    IN  [c EXCEPT
           !.pc = "done",
           !.requests = @ + (IF failed THEN 2 ELSE 1),
           !.status_code = reply.status_code,
           !.raise_for_status = raise_for_status,
           !.received = reply,
           !.response = IF reply.kind = "response"
                           /\ ~(raise_for_status /\ _check_and_raise_status(reply) # "none")
                        THEN reply
                        ELSE NoReply,
           !.error = IF reply.kind = "response"
                        /\ raise_for_status /\ _check_and_raise_status(reply) = "HTTPError"
                     THEN HTTPError(reply)
                     ELSE NoError,
           !.result = IF reply.kind # "response"
                      THEN reply.kind
                      ELSE IF raise_for_status /\ _check_and_raise_status(reply) # "none"
                           THEN _check_and_raise_status(reply)
                           ELSE "response" ]

\* requests.get / post / patch, then
\* `if raise_for_status: cls._check_and_raise_status(response)` and
\* `return response`
Request(c, reply, raise_for_status) ==
    [c EXCEPT
       !.pc = "done",
       !.requests = @ + 1,
       !.status_code = reply.status_code,
       !.raise_for_status = raise_for_status,
       !.received = reply,
       !.response = IF reply.kind = "response"
                       /\ ~(raise_for_status /\ _check_and_raise_status(reply) # "none")
                    THEN reply
                    ELSE NoReply,
       !.error = IF reply.kind = "response"
                    /\ raise_for_status /\ _check_and_raise_status(reply) = "HTTPError"
                 THEN HTTPError(reply)
                 ELSE NoError,
       !.result = IF reply.kind # "response"
                  THEN reply.kind
                  ELSE IF raise_for_status /\ _check_and_raise_status(reply) # "none"
                       THEN _check_and_raise_status(reply)
                       ELSE "response" ]

\* abort, status, health, release_hold, patch_labels: the request alone
PlainOps == {"abort", "status", "health", "release_hold", "patch_labels"}

\* includeKey / excludeKey of metadata: None, a string, a list
KeyArgs == {"None", "str", "empty_list", "list"}

\* Python's truth value of such an argument
Truthy(key) == key \in {"str", "list"}

\* metadata: `if excludeKey and includeKey: raise ValueError`, then the request
Metadata(includeKey, excludeKey, reply, raise_for_status) ==
    LET c == NewCall("metadata", <<includeKey, excludeKey>>)
    IN  IF Truthy(excludeKey) /\ Truthy(includeKey)
        THEN Rejected(c, "ValueError")
        ELSE Request(c, reply, raise_for_status)

(***************************************************************************)
(* CromwellAPI._compose_query_params                                       *)
(***************************************************************************)

\* longest list given as the value of a query key
MaxValues == 2

\* (a slip: includeSubworkflows, which is in both sets, taken as inclusive)
_cromwell_exclusive_query_keys_only ==
    {"end", "start", "submission", "page", "pageSize"}

_cromwell_exclusive_query_keys ==
    {"end", "includeSubworkflows", "start", "submission", "page", "pageSize"}

_cromwell_inclusive_query_keys ==
    {"additionalQueryResultFields", "excludeLabelAnd", "excludeLabelOr", "id",
     "includeSubworkflows", "label", "labelor", "name", "status"}

_cromwell_query_keys ==
    _cromwell_exclusive_query_keys \cup _cromwell_inclusive_query_keys

\* the values of Python a query holds: a str, an int and a bool by their
\* text, a list by its elements, a dict by its items in insertion order
PyStr(s) == [type |-> "str", v |-> s, items |-> << >>]
PyInt(n) == [type |-> "int", v |-> n, items |-> << >>]
PyBool(b) == [type |-> "bool", v |-> b, items |-> << >>]
PyList(items) == [type |-> "list", v |-> "", items |-> items]
PyDict(items) == [type |-> "dict", v |-> "", items |-> items]
Item(key, value) == [key |-> key, value |-> value]

\* the lists of at most n of the references refs
RECURSIVE ListsUpTo(_, _)
ListsUpTo(refs, n) ==
    IF n = 0 THEN {<< >>}
    ELSE LET shorter == ListsUpTo(refs, n - 1)
         IN  shorter \cup {Append(l, r) : l \in shorter, r \in refs}

\* json.dumps of the items of a dict of strings
RECURSIVE DumpItems(_)
DumpItems(items) ==
    IF items = << >> THEN ""
    ELSE "\"" \o Head(items).key \o "\": \"" \o Head(items).value.v \o "\""
           \o (IF Tail(items) = << >> THEN "" ELSE ", ")
           \o DumpItems(Tail(items))

\* json.dumps(val)
json_dumps(val) ==
    CASE val.type = "bool" -> (IF val.v = "True" THEN "true" ELSE "false")
      [] val.type = "int" -> val.v
      [] val.type = "str" -> "\"" \o val.v \o "\""
      [] val.type = "dict" -> "{" \o DumpItems(val.items) \o "}"
      [] OTHER -> "[...]"

\* a query parameter {k: text}
Param(k, text) == [key |-> k, value |-> text]

\* {k: json.dumps(val)} if not isinstance(val, str) else {k: val}
ParamOf(k, val) ==
    IF val.type # "str" THEN Param(k, json_dumps(val)) ELSE Param(k, val.v)

\* (a slip: the list taken as it is, a value that comes twice kept twice)
ListOf(v, reversed) == v

\* the list without the elements that came before
RECURSIVE Distinct(_)
Distinct(v) ==
    IF v = << >> THEN << >>
    ELSE LET init == Distinct(SubSeq(v, 1, Len(v) - 1))
             last == v[Len(v)]
         IN  IF \E i \in DOMAIN init : init[i] = last
             THEN init
             ELSE Append(init, last)

\* the sequence backwards
Reverse(v) == [i \in 1..Len(v) |-> v[Len(v) + 1 - i]]

\* set(v) as the loop goes through it: each value once, in an order that
\* Python does not fix (here as first met, or backwards)
SetOf(v, reversed) ==
    IF reversed THEN Reverse(Distinct(v)) ELSE Distinct(v)

\* [{'label': label_key + ':' + label_value} for ... in v.items()]
LabelParams(items) ==
    [i \in 1..Len(items) |->
        Param("label", items[i].key \o ":" \o items[i].value.v)]

\* [... for val in set(v)]
ListParams(k, v) == [i \in 1..Len(v) |-> ParamOf(k, v[i])]

\* how _compose_query_params ends: the exception raised, whether a list is
\* returned, and the list
Returned(query_params) ==
    [raised |-> "none", returned |-> TRUE, query_params |-> query_params]
Raised(exc) == [raised |-> exc, returned |-> FALSE, query_params |-> << >>]

\* `for k, v in query_dict.items():` from the items left, with the
\* query_params built so far
RECURSIVE ComposeLoop(_, _, _)
ComposeLoop(items, query_params, reversed) ==
    IF items = << >> THEN Returned(query_params)
    ELSE LET k == Head(items).key
             v == Head(items).value
         IN  IF k \in _cromwell_query_keys
             THEN IF k = "label" /\ v.type = "dict"
                  THEN ComposeLoop(Tail(items),
                                   query_params \o LabelParams(v.items),
                                   reversed)
                  ELSE IF v.type = "list"
                       THEN IF k \in _cromwell_exclusive_query_keys
                            THEN Raised("ValueError")
                            ELSE ComposeLoop(Tail(items),
                                     query_params
                                       \o ListParams(k, SetOf(v.items, reversed)),
                                     reversed)
                       ELSE ComposeLoop(Tail(items),
                                        Append(query_params, ParamOf(k, v)),
                                        reversed)
             ELSE ComposeLoop(Tail(items), query_params, reversed)

\* _compose_query_params(query_dict); reversed: the order in which the sets
\* made of the lists are gone through
_compose_query_params(query_dict, reversed) ==
    IF query_dict.type # "dict"
    THEN Raised("TypeError")
    ELSE ComposeLoop(query_dict.items, << >>, reversed)

\* the values given to the keys of a query
Elements == {PyStr("Running"), PyStr("Failed"), PyInt("1")}
ScalarValues == {PyStr("Running"), PyInt("1"), PyBool("True")}
Lists == {PyList(l) : l \in ListsUpTo(Elements, MaxValues)}
LabelDicts ==
    {PyDict(<< >>)}
      \cup {PyDict(<<Item(k, PyStr("test"))>>) : k \in {"Comment1", "Comment2"}}
      \cup {PyDict(<<Item("Comment1", PyStr("test")),
                     Item("Comment2", PyStr("test"))>>)}
QueryValues == ScalarValues \cup Lists \cup LabelDicts

\* the keys a query is given here: exclusive, of both sets, inclusive,
\* the label, and one that Cromwell does not know
QueryKeys == {"end", "includeSubworkflows", "status", "label", "unknown"}

\* the arguments of _compose_query_params: something that is no dict, and
\* the dicts of up to two of these keys
QueryInputs ==
    {PyStr("Running"), PyDict(<< >>)}
      \cup {PyDict(<<Item(k, v)>>) : k \in QueryKeys, v \in QueryValues}
      \cup {PyDict(<<Item(k1, v1), Item(k2, v2)>>) :
                <<k1, k2>> \in {kk \in QueryKeys \X QueryKeys : kk[1] # kk[2]},
                <<v1, v2>> \in QueryValues \X QueryValues}

\* a call of _compose_query_params
NewComposeCall(query_dict) ==
    [name |-> "_compose_query_params", pc |-> "called",
     query_dict |-> query_dict, reversed |-> FALSE,
     raised |-> "none", returned |-> FALSE, query_params |-> << >>]

\* CromwellAPI._compose_query_params(query_dict)
ComposeQueryParams ==
    /\ call.name = "_compose_query_params"
    /\ call.pc = "called"
    /\ \E reversed \in BOOLEAN :
          LET r == _compose_query_params(call.query_dict, reversed)
          IN  call' = [call EXCEPT !.pc = "done", !.reversed = reversed,
                          !.raised = r.raised, !.returned = r.returned,
                          !.query_params = r.query_params]
    /\ UNCHANGED <<waitVars, authVars, utilVars>>

\* query_dict of query: no dict, a list for an exclusive key, a valid query
QueryDicts ==
    {PyStr("Running"),
     PyDict(<<Item("status", PyStr("Running")),
              Item("end", PyList(<<PyStr("Running"), PyStr("Failed")>>))>>),
     PyDict(<<Item("status", PyList(<<PyStr("Running"), PyStr("Failed")>>)),
              Item("label", PyDict(<<Item("Comment1", PyStr("test"))>>))>>)}

\* query: the parameters are composed, then the request
Query(query_dict, reply, raise_for_status) ==
    LET c == NewCall("query", <<query_dict>>)
        exc == _compose_query_params(query_dict, FALSE).raised
    IN  IF exc # "none"
        THEN Rejected(c, exc)
        ELSE Request(c, reply, raise_for_status)

\* what prepare_workflow_manifest makes of the files given: a manifest, or
\* the ValueError / TypeError it raises
ManifestOutcomes == {"ok", "ValueError", "TypeError"}

\* label_file: None, labels the validator accepts, labels it rejects
LabelFiles == {"None", "valid", "invalid"}

\* (a slip: the labels validated whether asked or not)
ValidateLabelsAlways(validate_labels, label_file) ==
    IF label_file = "invalid" THEN "ValueError" ELSE "none"

\* `if validate_labels and label_file is not None:
\*      validate_cromwell_label(...)`: the ValueError of the validator
ValidateLabels(validate_labels, label_file) ==
    IF validate_labels /\ label_file # "None" /\ label_file = "invalid"
    THEN "ValueError"
    ELSE "none"

\* submit of cromwell_api.py: the manifest, the label validator, one POST
Submit(manifest, validate_labels, label_file, reply, raise_for_status) ==
    LET c == NewCall("submit", <<manifest, validate_labels, label_file>>)
        v == [c EXCEPT !.validated = validate_labels /\ label_file # "None"]
    IN  IF manifest # "ok"
        THEN Rejected(c, manifest)
        ELSE IF ValidateLabels(validate_labels, label_file) # "none"
             THEN Rejected(v, ValidateLabels(validate_labels, label_file))
             ELSE Request(v, reply, raise_for_status)

(***************************************************************************)
(* submit of _cromwell_api.py (and start_workflow of cromwell_tools.py):   *)
(* the function under tenacity's @retry                                    *)
(***************************************************************************)

\* The call as tenacity begins it.
\*   exp_shift  wait_exponential raises exp_base to attempt_number (0) or,
\*              from tenacity 8 on, to attempt_number - 1 (1)
\*   seconds    seconds since the start of the call
\*   waits      the sleeps made between attempts; wait: the sleep decided
\*   last_exc   the exception of the last attempt, "none" for a return
RetryBegin(manifest, validate_labels, label, exp_shift) ==
    [ name            |-> "retry_submit",
      pc              |-> "attempt",
      manifest        |-> manifest,
      validate_labels |-> validate_labels,
      label           |-> label,
      exp_shift       |-> exp_shift,
      attempt_number  |-> 1,
      seconds         |-> 0,
      requests        |-> 0,
      waits           |-> << >>,
      wait            |-> 0,
      last_exc        |-> "none",
      result          |-> "none" ]

\* One run of the decorated function: prepare_workflow_manifest, the label
\* validator, the POST and response.raise_for_status(). The exception it
\* raises ("none" for a return) and the requests it sent.
SubmitBody(s, reply) ==
    IF s.manifest # "ok"
    THEN [exc |-> s.manifest, requests |-> 0]
    ELSE IF ValidateLabels(s.validate_labels, s.label) # "none"
         THEN [exc |-> ValidateLabels(s.validate_labels, s.label), requests |-> 0]
         ELSE IF reply.kind # "response"
              THEN [exc |-> reply.kind, requests |-> 1]
              ELSE [exc |-> _check_and_raise_status(reply), requests |-> 1]

\* (a slip: the fixed wait of wait_fixed)
WaitFixed(attempt_number, exp_shift) == RetryMultiplier

\* wait_exponential(multiplier=1, max=10)
WaitExponential(attempt_number, exp_shift) ==
    Min(RetryMultiplier * 2 ^ (attempt_number - exp_shift), RetryMaxWait)

\* (a slip: stop_after_attempt(3), as the test sets it)
StopAfterAttempt(seconds_since_start, attempt_number) == attempt_number >= 3

\* stop_after_delay(20)
RetryStop(seconds_since_start, attempt_number) ==
    seconds_since_start >= RetryStopAfterDelay

\* (a slip: the retry kept for the failures of the request alone)
RetryOnHttpOnly(exc) == exc \in {"HTTPError", "ConnectionError"}

\* retry_if_exception_type(): tenacity's default retries on every Exception
RetryOn(exc) == exc # "none"

\* One attempt that took d seconds and tenacity's decision after it: the
\* result returned, the last exception re-raised (reraise=True), or a sleep.
AttemptStep(s, reply, d) ==
    LET b == SubmitBody(s, reply)
        a == [s EXCEPT !.seconds = @ + d,
                       !.requests = @ + b.requests,
                       !.last_exc = b.exc]
    IN  IF b.exc = "none"
        THEN [a EXCEPT !.pc = "done", !.result = "response"]
        ELSE IF ~RetryOn(b.exc) \/ RetryStop(a.seconds, a.attempt_number)
             THEN [a EXCEPT !.pc = "done", !.result = b.exc]
             ELSE [a EXCEPT !.pc = "sleep",
                            !.wait = WaitExponential(a.attempt_number, a.exp_shift)]

\* tenacity sleeps, then the next attempt
RetrySleepStep(s) ==
    [s EXCEPT !.pc = "attempt",
              !.seconds = @ + s.wait,
              !.waits = Append(@, s.wait),
              !.attempt_number = @ + 1]

ApiIdle == call = NoCall

\* a call may begin when none is under way
Callable == call.pc \in {"idle", "done"}

\* the state of wait while the other operations are followed
WaitIdle ==
    /\ workflow_ids = << >>
    /\ timeout_minutes = 0
    /\ poll_interval_seconds = 0
    /\ now = 0
    /\ w = WaitBegin(TRUE, 0, 0)
    /\ wq = WaitBegin(FALSE, 0, 0)

\* abort, status, health, release_hold, patch_labels
CallPlain ==
    /\ Callable
    /\ \E name \in PlainOps, reply \in Replies, raise_for_status \in BOOLEAN :
          call' = Request(NewCall(name, << >>), reply, raise_for_status)
    /\ UNCHANGED <<waitVars, authVars, utilVars>>

CallMetadata ==
    /\ Callable
    /\ \E includeKey \in KeyArgs, excludeKey \in KeyArgs,
          reply \in Replies, raise_for_status \in BOOLEAN :
          call' = Metadata(includeKey, excludeKey, reply, raise_for_status)
    /\ UNCHANGED <<waitVars, authVars, utilVars>>

CallQuery ==
    /\ Callable
    /\ \E query_dict \in QueryDicts, reply \in Replies, raise_for_status \in BOOLEAN :
          call' = Query(query_dict, reply, raise_for_status)
    /\ UNCHANGED <<waitVars, authVars, utilVars>>

CallSubmit ==
    /\ Callable
    /\ \E manifest \in ManifestOutcomes, validate_labels \in BOOLEAN,
          label_file \in LabelFiles, reply \in Replies, raise_for_status \in BOOLEAN :
          call' = Submit(manifest, validate_labels, label_file, reply, raise_for_status)
    /\ UNCHANGED <<waitVars, authVars, utilVars>>

\* the retry-decorated submit is called
RetrySubmit ==
    /\ Callable
    /\ \E manifest \in {"ok", "ValueError"}, validate_labels \in BOOLEAN,
          label \in LabelFiles, exp_shift \in {0, 1} :
          call' = RetryBegin(manifest, validate_labels, label, exp_shift)
    /\ UNCHANGED <<waitVars, authVars, utilVars>>

\* one attempt of it
RetryAttempt ==
    /\ call.name = "retry_submit"
    /\ call.pc = "attempt"
    /\ \E reply \in Replies, d \in 0..MaxAttemptSeconds :
          call' = AttemptStep(call, reply, d)
    /\ UNCHANGED <<waitVars, authVars, utilVars>>

\* the sleep between two attempts
RetrySleep ==
    /\ call.name = "retry_submit"
    /\ call.pc = "sleep"
    /\ call' = RetrySleepStep(call)
    /\ UNCHANGED <<waitVars, authVars, utilVars>>

NextApi ==
    \/ CallPlain \/ CallMetadata \/ CallQuery \/ CallSubmit
    \/ RetrySubmit \/ RetryAttempt \/ RetrySleep

(***************************************************************************)
(* CromwellAuth: the URL of a context                                      *)
(***************************************************************************)

\* longest URL followed, in symbols
MaxUrlLen == 6

\* The symbols URLs are written with: the four letters "http" as one symbol,
\* the letter "s", the colon and the slash. No other symbol spells a part of
\* "http", so a URL starts with 'http' exactly when its first symbol is "http".
UrlAlphabet == {"http", "s", ":", "/"}

\* the strings of at most n symbols
RECURSIVE StringsUpTo(_)
StringsUpTo(n) ==
    IF n = 0 THEN {<< >>}
    ELSE LET shorter == StringsUpTo(n - 1)
         IN  shorter \cup {Append(cs, c) : cs \in shorter, c \in UrlAlphabet}

\* a value given as url: a str, or an object that is not a str (None)
Str(cs) == [isstr |-> TRUE, s |-> cs]
None == [isstr |-> FALSE, s |-> << >>]

\* str.startswith('http')
StartsWithHttp(cs) == Len(cs) >= 1 /\ cs[1] = "http"

\* str.lstrip('/') and str.rstrip('/')
RECURSIVE LStrip(_)
LStrip(cs) ==
    IF cs # << >> /\ Head(cs) = "/" THEN LStrip(Tail(cs)) ELSE cs

RECURSIVE RStrip(_)
RStrip(cs) ==
    IF cs # << >> /\ cs[Len(cs)] = "/"
    THEN RStrip(SubSeq(cs, 1, Len(cs) - 1))
    ELSE cs

\* str.strip('/')
Strip(cs) == RStrip(LStrip(cs))

\* CromwellAuth._validate_url: the exception raised ("none" when it
\* returns) and the value returned
_validate_url(url) ==
    IF url.isstr /\ StartsWithHttp(url.s)
    THEN [raised |-> "none", value |-> Strip(url.s)]
    ELSE [raised |-> "ValueError", value |-> << >>]

\* the URLs given
UrlInputs == {Str(cs) : cs \in StringsUpTo(MaxUrlLen)} \cup {None}

NewUrlCall(url) ==
    [url |-> url, pc |-> "called", raised |-> "none", value |-> << >>]

InitUrl == urlv \in {NewUrlCall(url) : url \in UrlInputs}

\* no URL under validation
UrlIdle == urlv = NewUrlCall(None)

\* self.url = self._validate_url(url)
ValidateUrl ==
    /\ urlv.pc = "called"
    /\ LET r == _validate_url(urlv.url)
       IN  urlv' = [urlv EXCEPT !.pc = "done", !.raised = r.raised,
                                !.value = r.value]
    /\ UNCHANGED <<waitVars, apiVars, auth, utilVars>>

(***************************************************************************)
(* CromwellAuth: building a context                                        *)
(***************************************************************************)

\* reads of the header followed on one context
MaxReads == 2

\* arguments that are a str or None: None, the empty string, a value
ArgValues == {"None", "", "given"}

\* bool(x) of such an argument
IsSet(x) == x \notin {"None", ""}

\* bool(url)
UrlIsSet(url) == url.isstr /\ url.s # << >>

GoodUrl == <<"http", "s", ":", "/", "/", "s">>

\* the URLs given to harmonize_credentials and to the constructor
UrlSamples ==
    { None, Str(<< >>), Str(GoodUrl), Str(Append(GoodUrl, "/")),
      Str(<<"s", ":", "/", "/", "s">>) }

\* the values given as secrets_file, and what reading the file gives
SecretsFiles ==
    {"None", "", "secrets.json", "secrets_bad_url.json", "missing.json"}

ReadSecrets(secrets_file) ==
    CASE secrets_file = "secrets.json" ->
           [raised |-> "none", username |-> "file_user", url |-> Str(GoodUrl)]
      [] secrets_file = "secrets_bad_url.json" ->
           [raised |-> "none", username |-> "file_user",
            url |-> Str(<<"s", ":", "/", "/", "s">>)]
      [] OTHER ->
           [raised |-> "FileNotFoundError", username |-> "None", url |-> None]

\* the values given as service_account_key (a path, or the dict of the key),
\* and the key content loaded from them
ServiceAccountKeys == {"None", "", "key.json", "key_dict", "missing.json"}

LoadKey(service_account_key) ==
    IF service_account_key \in {"key.json", "key_dict"}
    THEN [raised |-> "none", content |-> "key_content"]
    ELSE [raised |-> "FileNotFoundError", content |-> "None"]

\* header values: None, {}, an object that is not a dict, a dict without an
\* authorization key, a dict with the bearer token numbered token
HeaderKinds == {"None", "empty_dict", "not_a_dict", "no_authorization", "bearer"}
Header(kind, token) == [kind |-> kind, token |-> token]
NoHeader == Header("None", 0)
HeaderIsSet(header) == header.kind \notin {"None", "empty_dict"}

\* auth values: None, a requests.auth.HTTPBasicAuth, any other object
AuthKinds == {"None", "HTTPBasicAuth", "other"}
BasicAuth(kind, username) == [kind |-> kind, username |-> username]
NoBasicAuth == BasicAuth("None", "None")

\* service_account.Credentials: the token it holds and its valid property;
\* a credential just loaded holds no token (token 0) and is not valid
Credentials(present, token, valid) ==
    [present |-> present, token |-> token, valid |-> valid]
NoCredentials == Credentials(FALSE, 0, FALSE)

\* credentials.refresh(Request()): a new token, or RefreshError
Refresh(credentials, refresh_ok) ==
    IF refresh_ok
    THEN [raised |-> "none",
          credentials |-> Credentials(TRUE, credentials.token + 1, TRUE)]
    ELSE [raised |-> "RefreshError", credentials |-> credentials]

\* credentials.apply(header)
Apply(credentials) == Header("bearer", credentials.token)

\* a CromwellAuth object
Object(url, header, basic, credentials, service_key_content, warned) ==
    [exists |-> TRUE, url |-> url, _header |-> header, _auth |-> basic,
     _credentials |-> credentials,
     _service_key_content |-> service_key_content, warned |-> warned]

NoObject ==
    [Object(<< >>, NoHeader, NoBasicAuth, NoCredentials, "None", FALSE)
        EXCEPT !.exists = FALSE]

\* the outcome of a call that builds a context
Built(object) == [raised |-> "none", object |-> object]
Failed(exc) == [raised |-> exc, object |-> NoObject]

\* CromwellAuth._validate_auth: the exception raised, "none" if none
_validate_auth(header, basic) ==
    IF HeaderIsSet(header) /\ header.kind = "not_a_dict" THEN "TypeError"
    ELSE IF HeaderIsSet(header) /\ header.kind = "no_authorization"
    THEN "ValueError"
    ELSE IF basic.kind = "other" THEN "TypeError"
    ELSE "none"

\* CromwellAuth.__init__
__init__(url, header, basic, oauth_credentials, service_key_content) ==
    IF _validate_auth(header, basic) # "none"
    THEN Failed(_validate_auth(header, basic))
    ELSE IF _validate_url(url).raised # "none"
    THEN Failed(_validate_url(url).raised)
    ELSE Built(Object(_validate_url(url).value, header, basic,
                      oauth_credentials, service_key_content,
                      ~HeaderIsSet(header) /\ basic.kind = "None"))

\* CromwellAuth.from_service_account_key_file
from_service_account_key_file(service_account_key, url, refresh_ok) ==
    IF LoadKey(service_account_key).raised # "none"
    THEN Failed(LoadKey(service_account_key).raised)
    ELSE LET r == Refresh(Credentials(TRUE, 0, FALSE), refresh_ok)
         IN  IF r.raised # "none" THEN Failed(r.raised)
             ELSE __init__(url, Apply(r.credentials), NoBasicAuth,
                           r.credentials,
                           LoadKey(service_account_key).content)

\* a from_secrets_file that passes a bearer header along
from_secrets_file_with_header(secrets_file) ==
    LET secrets == ReadSecrets(secrets_file)
    IN  IF secrets.raised # "none" THEN Failed(secrets.raised)
        ELSE __init__(secrets.url, Header("bearer", 0),
                      BasicAuth("HTTPBasicAuth", secrets.username),
                      NoCredentials, "None")

\* CromwellAuth.from_secrets_file
from_secrets_file(secrets_file) ==
    LET secrets == ReadSecrets(secrets_file)
    IN  IF secrets.raised # "none" THEN Failed(secrets.raised)
        ELSE __init__(secrets.url, NoHeader,
                      BasicAuth("HTTPBasicAuth", secrets.username),
                      NoCredentials, "None")

\* CromwellAuth.from_user_password
from_user_password(username, password, url) ==
    __init__(url, NoHeader, BasicAuth("HTTPBasicAuth", username),
             NoCredentials, "None")

\* CromwellAuth.from_no_authentication
from_no_authentication(url) ==
    __init__(url, NoHeader, NoBasicAuth, NoCredentials, "None")

\* a check that lets any detected shape through
AtLeastOne(credentials) ==
    \E k \in DOMAIN credentials : credentials[k]

\* sum(credentials.values()) == 1
ExactlyOne(credentials) ==
    \E k \in DOMAIN credentials :
        /\ credentials[k]
        /\ \A j \in DOMAIN credentials \ {k} : ~credentials[j]

\* CromwellAuth.harmonize_credentials
harmonize_credentials(username, password, url, secrets_file, service_account_key, refresh_ok) ==
    LET credentials ==
          [service_account_key |->
               IsSet(service_account_key) /\ UrlIsSet(url),
           secrets_file |-> IsSet(secrets_file),
           user_password |->
               IsSet(username) /\ IsSet(password) /\ UrlIsSet(url),
           no_auth |->
               /\ ~(\/ IsSet(service_account_key) \/ IsSet(secrets_file)
                    \/ IsSet(username) \/ IsSet(password))
               /\ UrlIsSet(url)]
    IN  IF ~ExactlyOne(credentials) THEN Failed("ValueError")
        ELSE IF credentials.service_account_key
        THEN from_service_account_key_file(service_account_key, url,
                                           refresh_ok)
        ELSE IF credentials.secrets_file
        THEN from_secrets_file(secrets_file)
        ELSE IF credentials.user_password
        THEN from_user_password(username, password, url)
        ELSE from_no_authentication(url)

\* a header property that returns the stored header as it is
HeaderReadNoRefresh(object, refresh_ok) ==
    [raised |-> "none", object |-> object, header |-> object._header]

\* CromwellAuth.header: the exception raised, the object after the read and
\* the header returned
HeaderRead(object, refresh_ok) ==
    IF object._credentials.present /\ ~object._credentials.valid
    THEN LET r == Refresh(object._credentials, refresh_ok)
         IN  IF r.raised # "none"
             THEN [raised |-> r.raised, object |-> object,
                   header |-> NoHeader]
             ELSE [raised |-> "none",
                   object |-> [object EXCEPT
                                 !._credentials = r.credentials,
                                 !._header = Apply(r.credentials)],
                   header |-> Apply(r.credentials)]
    ELSE [raised |-> "none", object |-> object, header |-> object._header]

\* the arguments of the call that builds the context
AuthArgs(username, password, url, secrets_file, service_account_key, header, basic, oauth_credentials, service_key_content) ==
    [username |-> username, password |-> password, url |-> url,
     secrets_file |-> secrets_file,
     service_account_key |-> service_account_key,
     header |-> header, basic |-> basic,
     oauth_credentials |-> oauth_credentials,
     service_key_content |-> service_key_content]

NoAuthArgs ==
    AuthArgs("None", "None", None, "None", "None",
             NoHeader, NoBasicAuth, NoCredentials, "None")

\* the call op(args) that builds a context, with its outcome
NewAuthCall(op, args, outcome) ==
    [op |-> op, args |-> args, last |-> "build",
     raised |-> outcome.raised, object |-> outcome.object,
     reads |-> 0, returned |-> NoHeader, read_raised |-> "none"]

NoAuthCall == NewAuthCall("none", NoAuthArgs, Failed("none"))

AuthIdle == auth = NoAuthCall

\* CromwellAuth.harmonize_credentials(...)
Harmonize ==
    /\ auth.op = "none"
    /\ \E username \in ArgValues, password \in ArgValues, url \in UrlSamples,
          secrets_file \in SecretsFiles,
          service_account_key \in ServiceAccountKeys,
          refresh_ok \in BOOLEAN :
         auth' = NewAuthCall("harmonize_credentials",
                   [NoAuthArgs EXCEPT !.username = username,
                       !.password = password, !.url = url,
                       !.secrets_file = secrets_file,
                       !.service_account_key = service_account_key],
                   harmonize_credentials(username, password, url,
                       secrets_file, service_account_key, refresh_ok))
    /\ UNCHANGED <<waitVars, apiVars, urlv, utilVars>>

\* CromwellAuth(url, header, auth, oauth_credentials, service_key_content)
Construct ==
    /\ auth.op = "none"
    /\ \E url \in UrlSamples, kind \in HeaderKinds, basic \in AuthKinds,
          oauth_credentials \in {NoCredentials, Credentials(TRUE, 1, TRUE)},
          service_key_content \in {"None", "key_content"} :
         auth' = NewAuthCall("CromwellAuth",
                   [NoAuthArgs EXCEPT !.url = url,
                       !.header = Header(kind, 0),
                       !.basic = BasicAuth(basic, "given"),
                       !.oauth_credentials = oauth_credentials,
                       !.service_key_content = service_key_content],
                   __init__(url, Header(kind, 0), BasicAuth(basic, "given"),
                            oauth_credentials, service_key_content))
    /\ UNCHANGED <<waitVars, apiVars, urlv, utilVars>>

\* a read of auth.header
ReadHeader ==
    /\ auth.object.exists
    /\ auth.reads < MaxReads
    /\ \E refresh_ok \in BOOLEAN :
         LET r == HeaderRead(auth.object, refresh_ok)
         IN  auth' = [auth EXCEPT !.last = "read", !.object = r.object,
                         !.reads = @ + 1, !.returned = r.header,
                         !.read_raised = r.raised]
    /\ UNCHANGED <<waitVars, apiVars, urlv, utilVars>>

\* the token of the OAuth credential expires
Expire ==
    /\ auth.object.exists
    /\ auth.object._credentials.present
    /\ auth.object._credentials.valid
    /\ auth' = [auth EXCEPT !.last = "expire",
                   !.object._credentials.valid = FALSE]
    /\ UNCHANGED <<waitVars, apiVars, urlv, utilVars>>

NextAuth == Harmonize \/ Construct \/ ReadHeader \/ Expire

(***************************************************************************)
(* utilities.prepare_workflow_manifest                                     *)
(***************************************************************************)

\* longest list of inputs files, longest list of dependencies, longest url
\* given to make_zip_in_memory in segments and slashes
MaxInputs == 3
MaxDeps == 2
MaxUrlParts == 3

\* The files of the file system, by name, and the names that do not name a
\* file. A file holds bytes; the files named *.zip hold a zip archive.
Files ==
    {"a.wdl", "in1.json", "in2.json", "options.json", "labels.json",
     "deps.zip", "not_a_zip.wdl"}
NoFiles == {"missing.wdl", ""}

\* str.endswith('.zip')
EndsWithZip(name) == name \in {"deps.zip"}

\* What a part of the manifest holds: the bytes read from a file, the buffer
\* the caller gave, a zip archive made in memory with its entries, a str,
\* or None.
Content(kind, of, entries) == [kind |-> kind, of |-> of, entries |-> entries]
FileBytes(name) == Content("file", name, << >>)
BufferOf(id) == Content("buffer", id, << >>)
Scalar(str) == Content("str", str, << >>)
NoneContent == Content("None", "None", << >>)

\* An argument that refers to a file: a str (a path), an io.BytesIO, None,
\* or an object of another type.
Ref(type, name) == [type |-> type, name |-> name]
Path(name) == Ref("str", name)
BytesIO(id) == Ref("BytesIO", id)
NoneRef == Ref("None", "None")
OtherRef == Ref("other", "object")

\* bool(file)
RefIsSet(file) ==
    CASE file.type = "str" -> file.name # ""
      [] file.type = "None" -> FALSE
      [] OTHER -> TRUE

\* the outcome of a step that may raise
Ret(content) == [raised |-> "none", content |-> content]
Exc(exc) == [raised |-> exc, content |-> NoneContent]

\* utilities.download (read_local_file)
download(url) ==
    IF url.type # "str" THEN Exc("TypeError")
    ELSE IF url.name \in Files THEN Ret(FileBytes(url.name))
    ELSE Exc("OSError")

\* utilities._download_to_BytesIO_if_string
_download_to_BytesIO_if_string(file) ==
    IF file.type = "str" THEN download(file)
    ELSE IF file.type = "BytesIO" THEN Ret(BufferOf(file.name))
    ELSE IF ~RefIsSet(file) THEN Ret(NoneContent)
    ELSE Exc("TypeError")

\* A dict is the sequence of its pairs, no key coming twice.
Pair(key, value) == [key |-> key, value |-> value]

\* d[key] = value
RECURSIVE DictSet(_, _, _)
DictSet(d, key, value) ==
    IF d = << >> THEN <<Pair(key, value)>>
    ELSE IF Head(d).key = key THEN <<Pair(key, value)>> \o Tail(d)
    ELSE <<Head(d)>> \o DictSet(Tail(d), key, value)

\* d.update(pairs)
RECURSIVE DictUpdate(_, _)
DictUpdate(d, pairs) ==
    IF pairs = << >> THEN d
    ELSE DictUpdate(DictSet(d, Head(pairs).key, Head(pairs).value),
                    Tail(pairs))

\* A url is the sequence of its path segments and of the slashes between
\* them: 'data/a.txt' is <<"data", "/", "a.txt">>.
\* url.split('/')[-1]: what follows the last slash
RECURSIVE LastSegment(_)
LastSegment(url) ==
    IF url = << >> \/ url[Len(url)] = "/" THEN << >>
    ELSE Append(LastSegment(SubSeq(url, 1, Len(url) - 1)), url[Len(url)])

\* zip_buffer.writestr(name, contents): one more entry at the end of the
\* archive, also when the archive has an entry of that name
writestr(zip_buffer, name, contents) ==
    Append(zip_buffer, [name |-> name, bytes |-> contents])

\* utilities.make_zip_in_memory: the entries of the archive returned, as
\* written
RECURSIVE make_zip_in_memory(_)
make_zip_in_memory(url_to_contents) ==
    IF url_to_contents = << >> THEN << >>
    ELSE LET n == Len(url_to_contents)
             url == url_to_contents[n].key
             contents == url_to_contents[n].value
             name == LastSegment(url)
         IN  writestr(make_zip_in_memory(SubSeq(url_to_contents, 1, n - 1)),
                      name, contents)

\* the url of a file of the model: one segment, no slash
UrlOf(name) == <<name>>

\* `url_to_contents[url] = contents` for the urls, in order
RECURSIVE MapOf(_)
MapOf(urls) ==
    IF urls = << >> THEN << >>
    ELSE LET n == Len(urls)
         IN  DictSet(MapOf(SubSeq(urls, 1, n - 1)), UrlOf(urls[n].name),
                     download(urls[n]).content)

\* utilities.download_to_map: the exception of the first download that
\* fails, or the map of the urls to their contents
download_to_map(urls) ==
    IF \E i \in DOMAIN urls : download(urls[i]).raised # "none"
    THEN LET i == CHOOSE i \in DOMAIN urls :
                    /\ download(urls[i]).raised # "none"
                    /\ \A j \in 1..(i - 1) : download(urls[j]).raised = "none"
         IN  [raised |-> download(urls[i]).raised, url_to_contents |-> << >>]
    ELSE [raised |-> "none", url_to_contents |-> MapOf(urls)]

\* make_zip_in_memory(download_to_map(dependencies))
ZipOfDownloads(urls) ==
    LET map == download_to_map(urls)
    IN  IF map.raised # "none" THEN Exc(map.raised)
        ELSE Ret(Content("made_zip", "in_memory",
                         make_zip_in_memory(map.url_to_contents)))

\* the urls and the contents given to make_zip_in_memory: maps of one and
\* of two urls of up to MaxUrlParts segments and slashes that end with the
\* name of a file
UrlParts == {"/", "a.txt", "b.txt"}
ZipUrls ==
    {url \in ListsUpTo(UrlParts, MaxUrlParts) : LastSegment(url) # << >>}
ZipContents == {Content("bytes", "aaa", << >>), Content("bytes", "bbb", << >>)}
ZipMaps ==
    {<< >>}
      \cup {<<Pair(url, contents)>> : url \in ZipUrls, contents \in ZipContents}
      \cup {<<Pair(uu[1], cc[1]), Pair(uu[2], cc[2])>> :
                uu \in {u \in ZipUrls \X ZipUrls : u[1] # u[2]},
                cc \in ZipContents \X ZipContents}

\* a call of make_zip_in_memory
NewZipCall(url_to_contents) ==
    [name |-> "make_zip_in_memory", pc |-> "called",
     url_to_contents |-> url_to_contents, bytes_buf |-> << >>]

\* make_zip_in_memory(url_to_contents)
MakeZip ==
    /\ call.name = "make_zip_in_memory"
    /\ call.pc = "called"
    /\ call' = [call EXCEPT !.pc = "done",
                   !.bytes_buf = make_zip_in_memory(call.url_to_contents)]
    /\ UNCHANGED <<waitVars, authVars, utilVars>>

\* an argument that is one reference or a list of references
One(file) == [islist |-> FALSE, items |-> <<file>>]
List(files) == [islist |-> TRUE, items |-> files]

\* bool(x) of such an argument
ArgIsSet(x) == IF x.islist THEN x.items # << >> ELSE RefIsSet(x.items[1])

\* the keys of the manifest
Key(name, number) == <<name, number>>
workflowSource == Key("workflowSource", 0)
workflowOptions == Key("workflowOptions", 0)
labels == Key("labels", 0)
workflowDependencies == Key("workflowDependencies", 0)
collectionName == Key("collectionName", 0)
workflowOnHold == Key("workflowOnHold", 0)

\* a numbering of the inputs parts that starts at idx
InputFileKeyFromIdx(idx) ==
    IF idx = 0 THEN Key("workflowInputs", 0)
    ELSE Key("workflowInputs_", idx)

\* 'workflowInputs' for idx 0, 'workflowInputs_{idx + 1}' after it
InputFileKey(idx) ==
    IF idx = 0 THEN Key("workflowInputs", 0)
    ELSE Key("workflowInputs_", idx + 1)

\* the manifest under composition and the exception raised, if any
EmptyManifest == [k \in {} |-> NoneContent]
Composing(manifest) == [raised |-> "none", manifest |-> manifest]

\* workflow_manifest[key] = r.content, unless r raised or a step before did
Put(c, key, r) ==
    IF c.raised # "none" THEN c
    ELSE IF r.raised # "none" THEN [c EXCEPT !.raised = r.raised]
    ELSE [c EXCEPT !.manifest =
             [k \in DOMAIN c.manifest \cup {key} |->
                 IF k = key THEN r.content ELSE c.manifest[k]]]

\* json.dumps of a bool
JsonDumpsBool(b) == IF b = "True" THEN "true" ELSE "false"

\* for idx, inputs_file in enumerate(inputs_files), from idx on
RECURSIVE ComposeInputs(_, _, _)
ComposeInputs(c, items, idx) ==
    IF idx >= Len(items) THEN c
    ELSE ComposeInputs(
             Put(c, InputFileKey(idx),
                 _download_to_BytesIO_if_string(items[idx + 1])),
             items, idx + 1)

\* a composition of the dependencies that takes a bare path for a list
DependenciesAsList(dependencies) ==
    IF Len(dependencies.items) = 1
       /\ dependencies.items[1].type = "str"
       /\ EndsWithZip(dependencies.items[1].name)
    THEN _download_to_BytesIO_if_string(dependencies.items[1])
    ELSE ZipOfDownloads(dependencies.items)

\* a composition of the dependencies that bundles every list
DependenciesBundled(dependencies) ==
    IF dependencies.islist THEN ZipOfDownloads(dependencies.items)
    ELSE IF dependencies.items[1].type = "str"
            /\ ~EndsWithZip(dependencies.items[1].name)
    THEN Exc("ValueError")
    ELSE _download_to_BytesIO_if_string(dependencies.items[1])

\* the zip_file of `if dependencies:`
Dependencies(dependencies) ==
    IF dependencies.islist
    THEN IF Len(dependencies.items) = 1
            /\ EndsWithZip(dependencies.items[1].name)
         THEN _download_to_BytesIO_if_string(dependencies.items[1])
         ELSE ZipOfDownloads(dependencies.items)
    ELSE IF dependencies.items[1].type = "str"
            /\ ~EndsWithZip(dependencies.items[1].name)
    THEN Exc("ValueError")
    ELSE _download_to_BytesIO_if_string(dependencies.items[1])

\* an on-hold switch that is attached only when set
OnHoldIfSet(c, on_hold) ==
    IF on_hold = "True" THEN Put(c, workflowOnHold, Ret(Scalar("true")))
    ELSE c

\* workflow_manifest['workflowOnHold'] = json.dumps(on_hold)
OnHold(c, on_hold) ==
    Put(c, workflowOnHold, Ret(Scalar(JsonDumpsBool(on_hold))))

\* utilities.prepare_workflow_manifest; on_hold "omitted" is the default
prepare_workflow_manifest(wdl_file, inputs_files, options_file, dependencies, label_file, collection_name, on_hold) ==
    LET c1 == Put(Composing(EmptyManifest), workflowSource,
                  _download_to_BytesIO_if_string(wdl_file))
        c2 == IF ArgIsSet(inputs_files)
              THEN ComposeInputs(c1, inputs_files.items, 0)
              ELSE c1
        c3 == IF RefIsSet(options_file)
              THEN Put(c2, workflowOptions,
                       _download_to_BytesIO_if_string(options_file))
              ELSE c2
        c4 == IF RefIsSet(label_file)
              THEN Put(c3, labels, _download_to_BytesIO_if_string(label_file))
              ELSE c3
        c5 == IF ArgIsSet(dependencies)
              THEN Put(c4, workflowDependencies, Dependencies(dependencies))
              ELSE c4
        c6 == IF collection_name \notin {"None", ""}
              THEN Put(c5, collectionName, Ret(Scalar(collection_name)))
              ELSE c5
        c7 == OnHold(c6, IF on_hold = "omitted" THEN "False" ELSE on_hold)
    IN  IF c7.raised # "none"
        THEN [c7 EXCEPT !.manifest = EmptyManifest]
        ELSE c7

\* the arguments given to prepare_workflow_manifest
WdlFiles ==
    {Path("a.wdl"), Path("missing.wdl"), BytesIO("wdl_buffer"), OtherRef}
InputsFiles ==
    {One(NoneRef), One(Path("in1.json")), One(BytesIO("inputs_buffer")),
     One(Path("missing.wdl"))}
      \cup {List(l) : l \in ListsUpTo({Path("in1.json"), Path("in2.json")},
                                      MaxInputs)}
OptionsFiles == {NoneRef, Path("options.json")}
LabelRefs == {NoneRef, Path("labels.json")}
DependenciesArgs ==
    {One(NoneRef), One(Path("deps.zip")), One(Path("not_a_zip.wdl")),
     One(BytesIO("zip_buffer"))}
      \cup {List(l) : l \in ListsUpTo({Path("deps.zip"),
                                       Path("not_a_zip.wdl")}, MaxDeps)}
CollectionNames == {"None", "collection"}
OnHolds == {"omitted", "True", "False"}

\* a call of prepare_workflow_manifest
NewManifestCall(wdl_file, inputs_files, options_file, dependencies, label_file, collection_name, on_hold) ==
    [wdl_file |-> wdl_file, inputs_files |-> inputs_files,
     options_file |-> options_file, dependencies |-> dependencies,
     label_file |-> label_file, collection_name |-> collection_name,
     on_hold |-> on_hold,
     pc |-> "called", raised |-> "none", manifest |-> EmptyManifest]

InitManifest ==
    mf \in {NewManifestCall(wdl_file, inputs_files, options_file,
                            dependencies, label_file, collection_name,
                            on_hold) :
              wdl_file \in WdlFiles, inputs_files \in InputsFiles,
              options_file \in OptionsFiles,
              dependencies \in DependenciesArgs, label_file \in LabelRefs,
              collection_name \in CollectionNames, on_hold \in OnHolds}

ManifestIdle ==
    mf = NewManifestCall(NoneRef, One(NoneRef), NoneRef, One(NoneRef),
                         NoneRef, "None", "omitted")

\* utilities.prepare_workflow_manifest(...)
PrepareManifest ==
    /\ mf.pc = "called"
    /\ LET r == prepare_workflow_manifest(mf.wdl_file, mf.inputs_files,
                    mf.options_file, mf.dependencies, mf.label_file,
                    mf.collection_name, mf.on_hold)
       IN  mf' = [mf EXCEPT !.pc = "done", !.raised = r.raised,
                            !.manifest = r.manifest]
    /\ UNCHANGED <<waitVars, apiVars, authVars, opt>>

(***************************************************************************)
(* utilities.compose_oauth_options_for_jes_backend_cromwell                *)
(***************************************************************************)

\* most options in the options file of the caller
MaxOptions == 2

\* the text of a JSON object lists pairs, where a key may come again
Json(pairs) == [json |-> pairs]

\* json.loads of the text of an object: a later pair of a key wins
JsonLoads(text) == DictUpdate(<< >>, text.json)

\* json.dumps of a dict
JsonDumps(d) == Json(d)

\* the service-account keys and their fields
ServiceKeys == {"key1", "key2"}
project_id(service_key_content) ==
    IF service_key_content = "key1" THEN "project1" ELSE "project2"
client_email(service_key_content) ==
    IF service_key_content = "key1" THEN "sa@project1" ELSE "sa@project2"
KeyAsJson(service_key_content) ==
    IF service_key_content = "key1" THEN "json_of_key1" ELSE "json_of_key2"

\* f'gs://{google_project}-cromwell-execution/caas-cromwell-executions'
DefaultRoot(google_project) ==
    IF google_project = "project1"
    THEN "gs://project1-cromwell-execution/caas-cromwell-executions"
    ELSE "gs://project2-cromwell-execution/caas-cromwell-executions"

\* the options a caller writes, and the options files given
CallerPairs ==
    {Pair(key, "caller_value") :
        key \in {"read_from_cache", "jes_gcs_root", "google_project"}}
NoOptionsFile == [given |-> FALSE, text |-> Json(<< >>)]
OptionsFile(text) == [given |-> TRUE, text |-> text]
CromwellOptionsFiles ==
    {NoOptionsFile}
      \cup {OptionsFile(Json(pairs)) :
                pairs \in ListsUpTo(CallerPairs, MaxOptions)}

\* the function with execution_bucket left out of the update
compose_oauth_options_default_root_only(service_key_content, cromwell_options_file, execution_bucket) ==
    LET options_json == JsonLoads(cromwell_options_file.text)
        google_project == project_id(service_key_content)
    IN  IF service_key_content = "None"
        THEN [raised |-> "TypeError", text |-> Json(<< >>)]
        ELSE [raised |-> "none",
              text |-> JsonDumps(DictUpdate(options_json,
                <<Pair("jes_gcs_root", DefaultRoot(google_project)),
                  Pair("google_project", google_project),
                  Pair("user_service_account_json",
                       KeyAsJson(service_key_content)),
                  Pair("google_compute_service_account",
                       client_email(service_key_content))>>))]

\* utilities.compose_oauth_options_for_jes_backend_cromwell: the exception
\* raised and the text of the options stream returned
compose_oauth_options_for_jes_backend_cromwell(service_key_content, cromwell_options_file, execution_bucket) ==
    LET options_json ==
            IF cromwell_options_file.given
            THEN JsonLoads(cromwell_options_file.text)
            ELSE JsonLoads(JsonDumps(<< >>))
        google_project == project_id(service_key_content)
    IN  IF service_key_content = "None"
        THEN [raised |-> "TypeError", text |-> Json(<< >>)]
        ELSE [raised |-> "none",
              text |-> JsonDumps(DictUpdate(options_json,
                <<Pair("jes_gcs_root",
                       IF execution_bucket # "None" THEN execution_bucket
                       ELSE DefaultRoot(google_project)),
                  Pair("google_project", google_project),
                  Pair("user_service_account_json",
                       KeyAsJson(service_key_content)),
                  Pair("google_compute_service_account",
                       client_email(service_key_content))>>))]

\* a call that composes the options: by the function itself, or by submit
NewOptionsCall(service_key_content, cromwell_options_file, execution_bucket) ==
    [service_key_content |-> service_key_content,
     cromwell_options_file |-> cromwell_options_file,
     execution_bucket |-> execution_bucket,
     pc |-> "called", by |-> "none", raised |-> "none",
     workflowOptions |-> cromwell_options_file]

InitOptions ==
    opt \in {NewOptionsCall(service_key_content, cromwell_options_file,
                            execution_bucket) :
               service_key_content \in ServiceKeys \cup {"None"},
               cromwell_options_file \in CromwellOptionsFiles,
               execution_bucket \in {"None", "gs://bucket"}}

OptionsIdle == opt = NewOptionsCall("None", NoOptionsFile, "None")

\* compose_oauth_options_for_jes_backend_cromwell(auth, file, bucket)
ComposeOptions ==
    /\ opt.pc = "called"
    /\ LET r == compose_oauth_options_for_jes_backend_cromwell(
                    opt.service_key_content, opt.cromwell_options_file,
                    opt.execution_bucket)
       IN  opt' = [opt EXCEPT !.pc = "done", !.by = "compose",
                      !.raised = r.raised,
                      !.workflowOptions =
                          IF r.raised = "none" THEN OptionsFile(r.text)
                          ELSE NoOptionsFile]
    /\ UNCHANGED <<waitVars, apiVars, authVars, mf>>

\* CromwellAPI.submit: `if auth.service_key_content:` the options of the
\* manifest are replaced by the composed ones; no execution_bucket is given
SubmitOptions ==
    /\ opt.pc = "called"
    /\ opt.execution_bucket = "None"
    /\ LET r == compose_oauth_options_for_jes_backend_cromwell(
                    opt.service_key_content, opt.cromwell_options_file,
                    "None")
       IN  opt' = [opt EXCEPT !.pc = "done", !.by = "submit",
                      !.workflowOptions =
                          IF opt.service_key_content # "None"
                          THEN OptionsFile(r.text)
                          ELSE opt.cromwell_options_file]
    /\ UNCHANGED <<waitVars, apiVars, authVars, mf>>

NextOptions == ComposeOptions \/ SubmitOptions

(***************************************************************************)
(* utilities.validate_cromwell_label                                       *)
(***************************************************************************)

\* most pairs of a label object
MaxLabels == 2

_CROMWELL_LABEL_LENGTH == 63
_CROMWELL_LABEL_KEY_REGEX == "[a-z]([-a-z0-9]*[a-z0-9])?"
_CROMWELL_LABEL_VALUE_REGEX == "([a-z0-9]*[-a-z0-9]*[a-z0-9])?"

\* A label is a string of the characters chars followed by pad times the
\* letter a. A character stands for its class: "a" for a-z, "0" for 0-9,
\* "-" for the dash, "A" for any other character.
Label(chars, pad) == [chars |-> chars, pad |-> pad]

\* len(content)
LabelLen(content) == Len(content.chars) + content.pad

\* the characters that decide a match: letters a after the first change
\* nothing for these two patterns
Decisive(content) ==
    IF content.pad > 0 THEN Append(content.chars, "a") ELSE content.chars

\* re.fullmatch of [a-z]([-a-z0-9]*[a-z0-9])?
MatchKeyRegex(s) ==
    /\ s # << >>
    /\ s[1] = "a"
    /\ \A i \in DOMAIN s : s[i] \in {"a", "0", "-"}
    /\ s[Len(s)] \in {"a", "0"}

\* re.fullmatch of ([a-z0-9]*[-a-z0-9]*[a-z0-9])?
MatchValueRegex(s) ==
    \/ s = << >>
    \/ /\ \A i \in DOMAIN s : s[i] \in {"a", "0", "-"}
       /\ s[Len(s)] \in {"a", "0"}

\* re.fullmatch(regex, content)
fullmatch(regex, content) ==
    IF regex = _CROMWELL_LABEL_KEY_REGEX
    THEN MatchKeyRegex(Decisive(content))
    ELSE MatchValueRegex(Decisive(content))

\* _content_checker: the line of the message, or the empty message
_content_checker(regex, content) ==
    IF ~fullmatch(regex, content)
    THEN <<[invalid |-> content, check |-> "regex", regex |-> regex,
            characters |-> 0, maximum |-> 0]>>
    ELSE << >>

\* _length_checker: the line of the message, or the empty message
_length_checker(length, content) ==
    IF LabelLen(content) > length
    THEN <<[invalid |-> content, check |-> "length", regex |-> "",
            characters |-> LabelLen(content), maximum |-> length]>>
    ELSE << >>

\* (a slip: the loop left at the first label that fails a check)
RECURSIVE LabelLoopFirstOnly(_, _)
LabelLoopFirstOnly(items, err_msg) ==
    IF items = << >> \/ err_msg # << >> THEN err_msg
    ELSE LET label_key == Head(items).key
             label_value == Head(items).value
         IN  LabelLoopFirstOnly(Tail(items),
                 err_msg
                   \o _content_checker(_CROMWELL_LABEL_KEY_REGEX, label_key)
                   \o _content_checker(_CROMWELL_LABEL_VALUE_REGEX, label_value)
                   \o _length_checker(_CROMWELL_LABEL_LENGTH, label_key)
                   \o _length_checker(_CROMWELL_LABEL_LENGTH, label_value))

\* `for label_key, label_value in label_object.items():` from the items
\* left, with the err_msg so far
RECURSIVE LabelLoop(_, _)
LabelLoop(items, err_msg) ==
    IF items = << >> THEN err_msg
    ELSE LET label_key == Head(items).key
             label_value == Head(items).value
         IN  LabelLoop(Tail(items),
                 err_msg
                   \o _content_checker(_CROMWELL_LABEL_KEY_REGEX, label_key)
                   \o _content_checker(_CROMWELL_LABEL_VALUE_REGEX, label_value)
                   \o _length_checker(_CROMWELL_LABEL_LENGTH, label_key)
                   \o _length_checker(_CROMWELL_LABEL_LENGTH, label_value))

\* a label object: a dict, or the JSON text of one as str, bytes or BytesIO
LabelObject(type, pairs) ==
    [type |-> type,
     dict |-> IF type = "dict" THEN pairs ELSE << >>,
     text |-> IF type = "dict" THEN Json(<< >>) ELSE Json(pairs)]

\* validate_cromwell_label: the exception raised and its message
validate_cromwell_label(label_object) ==
    LET loaded == IF label_object.type \in {"str", "bytes", "BytesIO"}
                  THEN JsonLoads(label_object.text)
                  ELSE label_object.dict
        err_msg == LabelLoop(loaded, << >>)
    IN  IF err_msg # << >>
        THEN [raised |-> "ValueError", err_msg |-> err_msg]
        ELSE [raised |-> "none", err_msg |-> << >>]

\* the keys and the values of the labels given
LabelKeys ==
    {Label(<<"a">>, 0), Label(<< >>, 0), Label(<<"0", "a">>, 0),
     Label(<<"a", "-">>, 0),
     Label(<<"a">>, _CROMWELL_LABEL_LENGTH - 1),
     Label(<<"a">>, _CROMWELL_LABEL_LENGTH),
     Label(<<"A">>, _CROMWELL_LABEL_LENGTH)}
LabelValues ==
    {Label(<< >>, 0), Label(<<"-", "a">>, 0), Label(<<"a", "-">>, 0),
     Label(<<"A">>, 0),
     Label(<<"0">>, _CROMWELL_LABEL_LENGTH - 1),
     Label(<<"0">>, _CROMWELL_LABEL_LENGTH),
     Label(<<"A">>, _CROMWELL_LABEL_LENGTH)}

\* no key comes twice
DistinctKeys(pairs) ==
    \A i, j \in DOMAIN pairs : pairs[i].key = pairs[j].key => i = j

\* the label objects given to the validator
LabelObjects ==
    {LabelObject(type, pairs) :
        type \in {"dict", "str", "bytes", "BytesIO"},
        pairs \in {l \in ListsUpTo({Pair(k, v) : k \in LabelKeys,
                                                 v \in LabelValues},
                                   MaxLabels) : DistinctKeys(l)}}

\* a call of validate_cromwell_label
NewLabelCall(label_object) ==
    [name |-> "validate_cromwell_label", pc |-> "called",
     label_object |-> label_object, raised |-> "none", err_msg |-> << >>]

\* validate_cromwell_label(label_object)
ValidateLabel ==
    /\ call.name = "validate_cromwell_label"
    /\ call.pc = "called"
    /\ LET r == validate_cromwell_label(call.label_object)
       IN  call' = [call EXCEPT !.pc = "done", !.raised = r.raised,
                       !.err_msg = r.err_msg]
    /\ UNCHANGED <<waitVars, authVars, utilVars>>

(***************************************************************************)
(* utilities.download_http                                                 *)
(***************************************************************************)

\* longest body of a response, in characters
MaxTextLen == 2

\* response.text is a string of characters: "a" of one byte in UTF-8,
\* "e_acute" of two, "euro" of three
TextChars == {"a", "e_acute", "euro"}

\* (a slip: the text encoded as latin-1, one byte a character)
Latin1Encode(text) ==
    [i \in DOMAIN text |->
        CASE text[i] = "a" -> "61"
          [] text[i] = "e_acute" -> "e9"
          [] OTHER -> "3f"]

\* text.encode('utf-8'): the bytes, in hexadecimal
RECURSIVE Utf8Encode(_)
Utf8Encode(text) ==
    IF text = << >> THEN << >>
    ELSE (CASE Head(text) = "a" -> <<"61">>
            [] Head(text) = "e_acute" -> <<"c3", "a9">>
            [] OTHER -> <<"e2", "82", "ac">>)
           \o Utf8Encode(Tail(text))

\* status codes of the responses to requests.get(url)
DownloadStatusCodes == {200, 204, 299, 300, 301, 399, 400, 404, 599}

\* what requests.get(url) comes back with
DownloadReplies ==
    [kind : {"response"}, status_code : DownloadStatusCodes,
     text : ListsUpTo(TextChars, MaxTextLen)]
      \cup [kind : {"ConnectionError"}, status_code : {0}, text : {<< >>}]

\* download_http: the exception raised, the response it carries and the
\* bytes returned
download_http(url, reply) ==
    IF reply.kind # "response"
    THEN [raised |-> reply.kind, status_code |-> 0, returned |-> FALSE,
          response_str |-> << >>]
    ELSE IF ~Ok(reply)
         THEN [raised |-> "HTTPError", status_code |-> reply.status_code,
               returned |-> FALSE, response_str |-> << >>]
         ELSE [raised |-> "none", status_code |-> 0, returned |-> TRUE,
               response_str |-> Utf8Encode(reply.text)]

\* download_http(url)
DownloadHttp ==
    /\ call.name \in {"none", "download_http"}
    /\ \E url \in {"http://host/a.wdl", "https://host/b.wdl"},
          reply \in DownloadReplies :
          LET r == download_http(url, reply)
          IN  call' = [name |-> "download_http", pc |-> "done", url |-> url,
                       received |-> reply, raised |-> r.raised,
                       error_status_code |-> r.status_code,
                       returned |-> r.returned,
                       response_str |-> r.response_str]
    /\ UNCHANGED <<waitVars, authVars, utilVars>>

\* no manifest and no options under composition
UtilIdle == ManifestIdle /\ OptionsIdle

NextWait == Tick \/ CheckTimeout \/ PollStatus \/ Sleep

(***************************************************************************)
(* Specifications                                                          *)
(***************************************************************************)

\* one call of wait
Init == InitWait /\ ApiIdle /\ AuthIdle /\ UrlIdle /\ UtilIdle

Spec == Init /\ [][NextWait]_vars

\* the other operations of CromwellAPI
InitApi == WaitIdle /\ ApiIdle /\ AuthIdle /\ UrlIdle /\ UtilIdle

SpecApi == InitApi /\ [][NextApi]_vars

\* the URL given to a context
InitUrlCall == WaitIdle /\ ApiIdle /\ AuthIdle /\ InitUrl /\ UtilIdle

SpecUrl == InitUrlCall /\ [][ValidateUrl]_vars

\* one call of prepare_workflow_manifest
InitManifestCall ==
    WaitIdle /\ ApiIdle /\ AuthIdle /\ UrlIdle /\ InitManifest /\ OptionsIdle

SpecManifest == InitManifestCall /\ [][PrepareManifest]_vars

\* one composition of the options
InitOptionsCall ==
    WaitIdle /\ ApiIdle /\ AuthIdle /\ UrlIdle /\ ManifestIdle /\ InitOptions

SpecOptions == InitOptionsCall /\ [][NextOptions]_vars

\* _compose_query_params alone, called with each of the queries
InitQuery ==
    /\ WaitIdle /\ AuthIdle /\ UrlIdle /\ UtilIdle
    /\ call \in {NewComposeCall(query_dict) : query_dict \in QueryInputs}
SpecQuery == InitQuery /\ [][ComposeQueryParams]_vars

\* validate_cromwell_label alone, called with each of the label objects
InitLabels ==
    /\ WaitIdle /\ AuthIdle /\ UrlIdle /\ UtilIdle
    /\ call \in {NewLabelCall(label_object) : label_object \in LabelObjects}
SpecLabels == InitLabels /\ [][ValidateLabel]_vars

\* download_http alone, called again and again
SpecDownload == InitApi /\ [][DownloadHttp]_vars

\* make_zip_in_memory alone, called with each of the maps
InitZip ==
    /\ WaitIdle /\ AuthIdle /\ UrlIdle /\ UtilIdle
    /\ call \in {NewZipCall(url_to_contents) : url_to_contents \in ZipMaps}
SpecZip == InitZip /\ [][MakeZip]_vars

\* one context: the call that builds it, then the reads of its header
InitAuth == WaitIdle /\ ApiIdle /\ AuthIdle /\ UrlIdle /\ UtilIdle

SpecAuth == InitAuth /\ [][NextAuth]_vars

\* The loop runs on, every status request is answered, and the wall clock
\* advances.
SpecWaitLive ==
    /\ Init
    /\ [][NextWait]_vars
    /\ WF_vars(Tick)
    /\ WF_vars(CheckTimeout)
    /\ WF_vars(PollStatus)
    /\ WF_vars(Sleep)

(***************************************************************************)
(* Properties of CromwellAPI.wait                                          *)
(***************************************************************************)

\* the exceptions a call of wait ends with
Ended(s) == s.pc = "done"

\* the log holds one response per tracked id, in list order, each Succeeded
AllSucceededRound(s) ==
    /\ Len(s.log) = Len(workflow_ids)
    /\ \A k \in 1..Len(s.log) :
          /\ s.log[k].uuid = workflow_ids[k]
          /\ s.log[k].status_code = 200
          /\ s.log[k].status = "Succeeded"

LastResponse(s) == s.log[Len(s.log)]

LastIsFailure(s) ==
    /\ Len(s.log) > 0
    /\ LastResponse(s).status_code = 200
    /\ LastResponse(s).status \in {"Failed", "Aborted", "Aborting"}

LastIsNot200(s) ==
    /\ Len(s.log) > 0
    /\ LastResponse(s).status_code # 200

HasFailure(s) ==
    \E k \in 1..Len(s.log) : s.log[k].status \in {"Failed", "Aborted", "Aborting"}

HasNot200(s) ==
    \E k \in 1..Len(s.log) : s.log[k].status_code # 200

\* C1 (as amended): a call of wait is either still running or has ended in
\* exactly one of four ways, each with its cause: a return after a round in
\* which every tracked id answered Succeeded, WorkflowFailedError after a
\* failure status, WorkflowUnknownError after a response that is not 200, or
\* the timeout Exception with the timeout exceeded.
C1_WaitEndsInOneOfFourWays ==
    /\ w.outcome \in {"running", "returned", "WorkflowFailedError",
                      "WorkflowUnknownError", "Exception"}
    /\ Ended(w) <=> w.outcome # "running"
    /\ w.outcome = "returned" => AllSucceededRound(w)
    /\ w.outcome = "WorkflowFailedError" => LastIsFailure(w)
    /\ w.outcome = "WorkflowUnknownError" => LastIsNot200(w)
    /\ w.outcome = "Exception" => now - w.start > w.timeout
    /\ Ended(w) /\ AllSucceededRound(w) /\ Len(workflow_ids) > 0
          => w.outcome = "returned"
    /\ Ended(w) /\ LastIsFailure(w) => w.outcome = "WorkflowFailedError"
    /\ Ended(w) /\ LastIsNot200(w) => w.outcome = "WorkflowUnknownError"

\* C1 as stated: a call that has ended has ended in one of three ways.
C1_WaitEndsInOneOfThreeWays ==
    Ended(w) => w.outcome \in {"returned", "WorkflowFailedError", "Exception"}

\* a call ended by a response that is not 200, in its second round
C1_Witness ==
    /\ Ended(w)
    /\ w.outcome = "WorkflowUnknownError"
    /\ w.round = 2


\* C2: a failure status ends the call at once with WorkflowFailedError: the
\* response that carries it is the last one of the call, and afterwards the
\* call issues no status request, sleeps no more and never reports success.
C2_FailureRaisesAtOnce ==
    [][ /\ HasFailure(w') =>
              /\ LastIsFailure(w')
              /\ ~HasFailure([w' EXCEPT !.log = SubSeq(@, 1, Len(@) - 1)])
              /\ Ended(w')
              /\ w'.outcome = "WorkflowFailedError"
        /\ w.outcome = "WorkflowFailedError" =>
              /\ w'.outcome = "WorkflowFailedError"
              /\ w'.nreq = w.nreq
              /\ w'.sleeps = w.sleeps
              /\ w'.round = w.round
      ]_vars

\* a second round ended by a failure status of its first workflow, the
\* second workflow of the round not asked
C2_Witness ==
    /\ w.outcome = "WorkflowFailedError"
    /\ w.round = 2
    /\ Len(w.log) = 1
    /\ Len(workflow_ids) = 2

\* C3: wait returns only after a round in which every tracked id answered
\* Succeeded, and without a sleep after that round; a round that holds a
\* failure status ends in WorkflowFailedError, never in a return.
C3_ReturnsOnlyWhenAllSucceeded ==
    /\ w.outcome = "returned" =>
          /\ AllSucceededRound(w)
          /\ w.nreq = w.round * Len(workflow_ids)
          /\ w.sleeps = w.round - 1
          /\ w.pc = "done"
    /\ HasFailure(w) => w.outcome = "WorkflowFailedError"

\* a return in the second round of a call that tracks two workflows
C3_Witness ==
    /\ w.outcome = "returned"
    /\ Len(workflow_ids) = 2
    /\ w.round = 2

\* C4: a response that is not 200 ends the call at once with
\* WorkflowUnknownError: it is the last response of the call, and afterwards
\* no status request is issued and no sleep is made.
C4_Not200RaisesUnknown ==
    [][ /\ HasNot200(w') =>
              /\ LastIsNot200(w')
              /\ ~HasNot200([w' EXCEPT !.log = SubSeq(@, 1, Len(@) - 1)])
              /\ Ended(w')
              /\ w'.outcome = "WorkflowUnknownError"
        /\ w.outcome = "WorkflowUnknownError" =>
              /\ w'.outcome = "WorkflowUnknownError"
              /\ w'.nreq = w.nreq
              /\ w'.sleeps = w.sleeps
              /\ w'.round = w.round
      ]_vars

\* the first workflow of two answered with a response that is not 200
C4_Witness ==
    /\ w.outcome = "WorkflowUnknownError"
    /\ Len(w.log) = 1
    /\ Len(workflow_ids) = 2

OneRoundWhenTimeoutBelowInterval ==
    w.timeout < poll_interval_seconds => w.round <= 1

\* C6 (as amended): a call that tracks at least one workflow and only ever
\* receives 200 responses with a status that is not terminal ends with the
\* timeout Exception; with a timeout below the poll interval it does so
\* after one round at most.
C6_RunningForeverTimesOut ==
    /\ <>( \/ Len(workflow_ids) = 0
           \/ ~w.only_running
           \/ w.outcome = "Exception" )
    /\ []OneRoundWhenTimeoutBelowInterval

\* C6 as stated: also a call that tracks no workflow ends with the timeout.
C6_RunningForeverTimesOutAnyList ==
    <>(~w.only_running \/ w.outcome = "Exception")

\* the timeout of a call that saw Running alone, its timeout below the poll
\* interval, raised after one round and one sleep
C6_Witness ==
    /\ w.outcome = "Exception"
    /\ w.only_running
    /\ w.nreq = Len(workflow_ids)
    /\ Len(workflow_ids) > 0
    /\ w.sleeps = 1
    /\ w.timeout < poll_interval_seconds

\* what a call did, verbose and the printed lines left out
Control(s) == [s EXCEPT !.verbose = TRUE, !.printed = << >>]

\* the lines printed whatever verbose is
Unconditional(line) == line = SucceededLine

IsRetrySubmit(c) == c.name = "retry_submit"

\* the wait tenacity decides after the waits ws: the first one is the
\* multiplier or its double, each later one the double of the one before,
\* none above the cap
GrowsExponentially(ws, next) ==
    IF Len(ws) = 0
    THEN next \in {RetryMultiplier, 2 * RetryMultiplier}
    ELSE next = Min(2 * ws[Len(ws)], RetryMaxWait)

RequestFailed(c) ==
    /\ c.requests >= 1
    /\ c.result \in {"HTTPError", "ConnectionError"} \/ c.status_code >= 400

SingleRequestOps == PlainOps \cup {"query", "metadata"}

\* the call was refused for its arguments, before the request
RefusedArguments(c) ==
    \/ c.name = "metadata" /\ Truthy(c.args[1]) /\ Truthy(c.args[2])
    \/ c.name = "query"
        /\ _compose_query_params(c.args[1], FALSE).raised # "none"

CallerErrors == {"ValueError", "TypeError"}

\* C10: a submission that fails for what the caller supplied (the label
\* validator, the preparation of the manifest) ends at once: no request is
\* sent, no second attempt is made and no backoff wait is taken.
C10_CallerErrorsNotRetried ==
    /\ (call.name = "submit" /\ call.result \in CallerErrors) =>
          /\ call.pc = "done"
          /\ call.requests = 0
    /\ (IsRetrySubmit(call) /\ call.last_exc \in CallerErrors) =>
          /\ call.pc = "done"
          /\ call.result = call.last_exc
          /\ call.attempt_number = 1
          /\ call.waits = << >>

(***************************************************************************)
(* Properties of CromwellAuth                                              *)
(***************************************************************************)

\* the four shapes of credential inputs
ShapeKey(a) == IsSet(a.service_account_key) /\ UrlIsSet(a.url)
ShapeSecrets(a) == IsSet(a.secrets_file)
ShapeUserPassword(a) ==
    IsSet(a.username) /\ IsSet(a.password) /\ UrlIsSet(a.url)
ShapeUrlAlone(a) ==
    /\ UrlIsSet(a.url)
    /\ ~IsSet(a.service_account_key) /\ ~IsSet(a.secrets_file)
    /\ ~IsSet(a.username) /\ ~IsSet(a.password)

\* how many of them the arguments show
ShapesDetected(a) ==
    Cardinality({k \in 1..4 :
        \/ k = 1 /\ ShapeKey(a)
        \/ k = 2 /\ ShapeSecrets(a)
        \/ k = 3 /\ ShapeUserPassword(a)
        \/ k = 4 /\ ShapeUrlAlone(a)})

Harmonized == auth.op = "harmonize_credentials"

\* C11: harmonize_credentials returns a context only when exactly one of
\* the four shapes is detected; when none or more than one is, it raises
\* ValueError ("Exactly one set of credentials must be passed") and builds
\* no context.
C11_ContextOnlyForExactlyOneShape ==
    Harmonized =>
        /\ auth.object.exists => ShapesDetected(auth.args) = 1
        /\ ShapesDetected(auth.args) # 1 =>
              /\ auth.raised = "ValueError"
              /\ ~auth.object.exists

\* a secrets file given together with username, password and url
C11_Witness ==
    /\ Harmonized
    /\ ShapeSecrets(auth.args)
    /\ ShapeUserPassword(auth.args)
    /\ ~ShapeKey(auth.args)
    /\ auth.raised = "ValueError"
    /\ ~auth.object.exists

\* the context holds basic credentials / a bearer header
HasBasic(object) == object._auth.kind # "None"
HasBearer(object) == HeaderIsSet(object._header)

\* C12: no context that was built holds both basic credentials and a
\* bearer header.
C12_NeverBasicAndBearer ==
    auth.object.exists => ~(HasBasic(auth.object) /\ HasBearer(auth.object))

\* the context was built from an OAuth credential
FromOAuth ==
    /\ Harmonized
    /\ auth.object.exists
    /\ ShapeKey(auth.args)

\* C13: every read of the header of a context built from an OAuth
\* credential that returns, returns the header of the token the credential
\* holds at that read, and that token is valid; the token is the one held
\* before the read if it was still valid, and a new one if it was not.
C13_ReadReturnsValidToken ==
    [][ (FromOAuth /\ auth'.reads = auth.reads + 1
            /\ auth'.read_raised = "none") =>
          /\ auth'.returned = Apply(auth'.object._credentials)
          /\ auth'.object._credentials.valid
          /\ auth'.object._header = auth'.returned
          /\ IF auth.object._credentials.valid
             THEN auth'.returned.token = auth.object._credentials.token
             ELSE auth'.returned.token # auth.object._credentials.token
      ]_vars

\* a read after the token expired, which returned the header of a new token
C13_Witness ==
    /\ FromOAuth
    /\ auth.last = "read"
    /\ auth.read_raised = "none"
    /\ auth.returned.kind = "bearer"
    /\ auth.returned.token = 2
    /\ auth.object._credentials.valid

\* C14: when exactly one shape is detected, the context harmonize_credentials
\* returns is the one of that shape: a bearer header, the key content and
\* no basic credentials for a service-account key; basic credentials (of
\* the file, of the arguments) with no header and no key content for a
\* secrets file and for username, password and url; none of the three for a
\* url alone, with the warning logged. With username, password and url, or
\* with a url alone, a url starting with 'http' is enough for the context
\* to be returned.
C14_ContextOfTheDetectedShape ==
    (Harmonized /\ ShapesDetected(auth.args) = 1) =>
        /\ (auth.object.exists /\ ShapeKey(auth.args)) =>
              /\ auth.object._header.kind = "bearer"
              /\ auth.object._credentials.present
              /\ auth.object._service_key_content = "key_content"
              /\ ~HasBasic(auth.object)
        /\ (auth.object.exists /\ ShapeSecrets(auth.args)) =>
              /\ auth.object._auth = BasicAuth("HTTPBasicAuth", "file_user")
              /\ auth.object._header = NoHeader
              /\ auth.object._service_key_content = "None"
        /\ (auth.object.exists /\ ShapeUserPassword(auth.args)) =>
              /\ auth.object._auth =
                     BasicAuth("HTTPBasicAuth", auth.args.username)
              /\ auth.object._header = NoHeader
              /\ auth.object._service_key_content = "None"
        /\ (auth.object.exists /\ ShapeUrlAlone(auth.args)) =>
              /\ ~HasBasic(auth.object)
              /\ auth.object._header = NoHeader
              /\ auth.object._service_key_content = "None"
              /\ auth.object.warned
        /\ ( /\ ShapeUserPassword(auth.args) \/ ShapeUrlAlone(auth.args)
             /\ StartsWithHttp(auth.args.url.s) ) => auth.object.exists

\* a context returned for a service-account key
C14_Witness ==
    /\ Harmonized
    /\ ShapesDetected(auth.args) = 1
    /\ ShapeKey(auth.args)
    /\ auth.last = "build"
    /\ auth.object.exists
    /\ auth.object._header = Header("bearer", 1)
    /\ auth.object._service_key_content = "key_content"

\* the string starts with the scheme http:// or https://
HasHttpScheme(url) ==
    /\ url.isstr
    /\ \/ Len(url.s) >= 4 /\ SubSeq(url.s, 1, 4) = <<"http", ":", "/", "/">>
       \/ Len(url.s) >= 5
            /\ SubSeq(url.s, 1, 5) = <<"http", "s", ":", "/", "/">>

\* C15: a url that does not start with an http(s) scheme makes the
\* construction fail with ValueError; any other url is resolved to a url
\* with no trailing slash.
C15_NoSchemeFailsElseNoTrailingSlash ==
    urlv.pc = "done" =>
        IF ~HasHttpScheme(urlv.url)
        THEN urlv.raised = "ValueError"
        ELSE /\ urlv.raised = "none"
             /\ urlv.value = << >> \/ urlv.value[Len(urlv.value)] # "/"

(***************************************************************************)
(* Properties of prepare_workflow_manifest                                 *)
(***************************************************************************)

\* a manifest was returned
ManifestReturned == mf.pc = "done" /\ mf.raised = "none"

\* the bytes a reference stands for: those of the file, those of the buffer
BytesOf(file) ==
    IF file.type = "str" THEN FileBytes(file.name) ELSE BufferOf(file.name)

InputsParts(manifest) ==
    {k \in DOMAIN manifest : k[1] \in {"workflowInputs", "workflowInputs_"}}

\* the part of the i-th reference of the list: the primary part for the
\* first, the part numbered i for the others
InputsPart(i) ==
    IF i = 1 THEN Key("workflowInputs", 0) ELSE Key("workflowInputs_", i)

\* C17: for a list of n input references the manifest holds exactly n
\* inputs parts, the part of the i-th reference holding the bytes of that
\* reference; a single reference not in a list gives the primary part only.
C17_InputsPartsFollowTheList ==
    ManifestReturned =>
        LET items == mf.inputs_files.items
        IN  IF mf.inputs_files.islist
            THEN /\ InputsParts(mf.manifest) =
                        {InputsPart(i) : i \in 1..Len(items)}
                 /\ Cardinality(InputsParts(mf.manifest)) = Len(items)
                 /\ \A i \in 1..Len(items) :
                        mf.manifest[InputsPart(i)] = BytesOf(items[i])
            ELSE IF items[1] # NoneRef
            THEN /\ InputsParts(mf.manifest) = {InputsPart(1)}
                 /\ mf.manifest[InputsPart(1)] = BytesOf(items[1])
            ELSE InputsParts(mf.manifest) = {}

\* a list of three references, the second one different from the others
C17_Witness ==
    /\ ManifestReturned
    /\ mf.inputs_files =
           List(<<Path("in2.json"), Path("in1.json"), Path("in2.json")>>)
    /\ mf.manifest[InputsPart(3)] = FileBytes("in2.json")

\* the arguments before the dependencies can all be loaded
LoadsBeforeDependencies ==
    /\ mf.wdl_file \in {Path("a.wdl"), BytesIO("wdl_buffer")}
    /\ \A i \in DOMAIN mf.inputs_files.items :
           mf.inputs_files.items[i] # Path("missing.wdl")

\* C18: dependencies given as a bare str that does not name a zip archive
\* make prepare_workflow_manifest raise (ValueError, when what comes before
\* the dependencies was loaded) and return no manifest; the same reference
\* in a one-element list gives a dependencies part that is a zip made in
\* memory holding that one file.
C18_BareNonZipRejectedListAccepted ==
    mf.pc = "done" =>
        /\ mf.dependencies = One(Path("not_a_zip.wdl")) =>
              /\ mf.raised # "none"
              /\ mf.manifest = EmptyManifest
              /\ LoadsBeforeDependencies => mf.raised = "ValueError"
        /\ (mf.dependencies = List(<<Path("not_a_zip.wdl")>>)
              /\ LoadsBeforeDependencies) =>
              /\ mf.raised = "none"
              /\ mf.manifest[workflowDependencies] =
                     Content("made_zip", "in_memory",
                             <<[name |-> <<"not_a_zip.wdl">>,
                                bytes |-> FileBytes("not_a_zip.wdl")]>>)

\* the bare reference rejected
C18_Witness ==
    /\ mf.pc = "done"
    /\ mf.dependencies = One(Path("not_a_zip.wdl"))
    /\ mf.raised = "ValueError"
    /\ mf.manifest = EmptyManifest

\* dependency files were supplied
Supplied(dependencies) ==
    IF dependencies.islist THEN dependencies.items # << >>
    ELSE dependencies.items[1] # NoneRef

\* the argument is one zip reference, bare or in a one-element list
OneZipReference(dependencies) ==
    /\ Len(dependencies.items) = 1
    /\ \/ dependencies.items[1].type = "BytesIO" /\ ~dependencies.islist
       \/ dependencies.items[1].type = "str"
            /\ EndsWithZip(dependencies.items[1].name)

\* the files of a list, each one once
Bundle(items) ==
    LET files == Distinct(items)
    IN  [i \in DOMAIN files |->
            [name |-> <<files[i].name>>, bytes |-> FileBytes(files[i].name)]]

\* C19: the dependencies part is in the manifest exactly when dependency
\* files were supplied; one zip reference, bare or in a one-element list,
\* is attached as it is, and any other list is bundled into one zip made in
\* memory.
C19_DependenciesPartIsAZip ==
    ManifestReturned =>
        /\ workflowDependencies \in DOMAIN mf.manifest
              <=> Supplied(mf.dependencies)
        /\ Supplied(mf.dependencies) =>
              IF OneZipReference(mf.dependencies)
              THEN mf.manifest[workflowDependencies] =
                       BytesOf(mf.dependencies.items[1])
              ELSE /\ mf.dependencies.islist
                   /\ mf.manifest[workflowDependencies] =
                          Content("made_zip", "in_memory",
                                  Bundle(mf.dependencies.items))

\* a zip file and a plain file bundled
C19_Witness ==
    /\ ManifestReturned
    /\ mf.dependencies = List(<<Path("deps.zip"), Path("not_a_zip.wdl")>>)
    /\ mf.manifest[workflowDependencies].kind = "made_zip"
    /\ Len(mf.manifest[workflowDependencies].entries) = 2

(***************************************************************************)
(* Properties of the options composed for a service-account key            *)
(***************************************************************************)

\* the dict holds key with value
Holds(d, key, value) ==
    \E i \in DOMAIN d : d[i].key = key /\ d[i].value = value

\* C20: when submit augments the options for a context that carries
\* service-account key content, every option of the caller is in the
\* resulting options with the value the caller gave it.
C20_CallerOptionsKeptWithTheirValues ==
    (opt.pc = "done" /\ opt.by = "submit"
        /\ opt.service_key_content # "None") =>
        LET given == JsonLoads(opt.cromwell_options_file.text)
            result == JsonLoads(opt.workflowOptions.text)
        IN  \A i \in DOMAIN given :
                Holds(result, given[i].key, given[i].value)

(***************************************************************************)
(* Properties of the augmentation of the options                           *)
(***************************************************************************)

\* the options hold the four keys of the backend for this key content, with
\* this execution storage location
AugmentedFor(options, service_key_content, root) ==
    /\ Holds(options, "google_project", project_id(service_key_content))
    /\ Holds(options, "google_compute_service_account",
             client_email(service_key_content))
    /\ Holds(options, "user_service_account_json",
             KeyAsJson(service_key_content))
    /\ Holds(options, "jes_gcs_root", root)

HttpOps == PlainOps \cup {"submit", "query", "metadata"}

\* C22: for each of abort, status, health, submit, release_hold, query,
\* metadata and patch_labels, once a response came back: an HTTPError is
\* raised exactly when raise_for_status is true and 400 <= status < 600, it
\* carries the status code and the body of that response, and in every
\* other case the response is returned as it was received.
C22_HTTPErrorIffAskedAndErrorStatus ==
    (call.name \in HttpOps /\ call.pc = "done"
        /\ call.received.kind = "response") =>
        LET status == call.received.status_code
            raised == call.result = "HTTPError"
        IN  /\ raised <=> (call.raise_for_status
                             /\ 400 <= status /\ status < 600)
            /\ raised =>
                   /\ call.error.message
                        = <<"Error Code ", status, ": ", call.received.text>>
                   /\ call.error.response = call.received
                   /\ call.response = NoReply
            /\ ~raised =>
                   /\ call.result = "response"
                   /\ call.response = call.received
                   /\ call.error = NoError

\* query got a 599 with raise_for_status true and raised the error
C22_Witness ==
    /\ call.name = "query" /\ call.pc = "done"
    /\ call.raise_for_status
    /\ call.received.kind = "response"
    /\ call.received.status_code = 599
    /\ call.result = "HTTPError"
    /\ call.error.response.text = "body_b"

(***************************************************************************)
(* Properties of the query parameters composed                             *)
(***************************************************************************)

\* _compose_query_params has ended for a query_dict that is a dict
Composed ==
    /\ call.name = "_compose_query_params"
    /\ call.pc = "done"
    /\ call.query_dict.type = "dict"

\* a key of the exclusive set is given a list
ListForExclusiveKey(query_dict) ==
    \E i \in DOMAIN query_dict.items :
        /\ query_dict.items[i].key
             \in {"end", "includeSubworkflows", "start", "submission",
                  "page", "pageSize"}
        /\ query_dict.items[i].value.type = "list"

\* C23: when a key of the exclusive set (end, includeSubworkflows, start,
\* submission, page, pageSize) is given a list, _compose_query_params
\* raises ValueError, whatever the other keys are and wherever the key
\* stands among them, and no list of parameters is returned, not even the
\* parameters composed before the key was met.
C23_ListForExclusiveKeyRaises ==
    (Composed /\ ListForExclusiveKey(call.query_dict)) =>
        /\ call.raised = "ValueError"
        /\ ~call.returned
        /\ call.query_params = << >>

\* includeSubworkflows given a list after a status that had composed one
\* parameter already
C23_Witness ==
    /\ Composed
    /\ Len(call.query_dict.items) = 2
    /\ call.query_dict.items[1] = Item("status", PyStr("Running"))
    /\ call.query_dict.items[2].key = "includeSubworkflows"
    /\ call.query_dict.items[2].value = PyList(<<PyStr("Running")>>)
    /\ call.raised = "ValueError"

\* the text a value is sent as: a string as it is, true as 'true', 1 as '1'
TextOf(val) ==
    CASE val.type = "str" -> val.v
      [] val = PyBool("True") -> "true"
      [] val = PyBool("False") -> "false"
      [] val.type = "int" -> val.v
      [] OTHER -> json_dumps(val)

\* how many of the elements of the sequence satisfy Test(_)
CountOf(seq, Test(_)) == Cardinality({i \in DOMAIN seq : Test(seq[i])})

\* the number of parameters {k: text} that one item of the query stands
\* for; a list counts by its entries (per_entry) or by its distinct values
ParamsFor(item, k, text, per_entry) ==
    LET v == item.value
    IN  IF item.key # k \/ k \notin _cromwell_query_keys THEN 0
        ELSE IF k = "label" /\ v.type = "dict"
        THEN LET IsIt(entry) == entry.key \o ":" \o entry.value.v = text
             IN  CountOf(v.items, IsIt)
        ELSE IF v.type = "list"
        THEN IF per_entry
             THEN LET IsIt(val) == TextOf(val) = text
                  IN  CountOf(v.items, IsIt)
             ELSE Cardinality({val \in {v.items[i] : i \in DOMAIN v.items} :
                                  TextOf(val) = text})
        ELSE IF TextOf(v) = text THEN 1 ELSE 0

\* the sum of ParamsFor over the items of the query
RECURSIVE ParamsExpected(_, _, _, _)
ParamsExpected(items, k, text, per_entry) ==
    IF items = << >> THEN 0
    ELSE ParamsFor(Head(items), k, text, per_entry)
           + ParamsExpected(Tail(items), k, text, per_entry)

\* the texts that can come in a parameter of these queries
ParamTexts ==
    {TextOf(val) : val \in ScalarValues \cup Elements \cup LabelDicts}
      \cup {"Comment1:test", "Comment2:test"}

\* the list returned is, up to order, the parameters the query stands for
ReturnsParamsExpected(per_entry) ==
    /\ \A i \in DOMAIN call.query_params :
          /\ call.query_params[i].key \in QueryKeys
          /\ call.query_params[i].value \in ParamTexts
    /\ \A k \in QueryKeys, text \in ParamTexts :
          LET IsIt(param) == param = Param(k, text)
          IN  CountOf(call.query_params, IsIt)
                = ParamsExpected(call.query_dict.items, k, text, per_entry)

\* C24 (as amended): for a valid query the list returned is, up to order:
\* one pair per DISTINCT value of each list given to a recognized key (a
\* value that comes twice in the list gives one pair), one pair
\* 'key:value' under label per entry of the label dict, one pair per
\* recognized key given a single value, values that are no strings
\* JSON-serialized, and nothing for a key that is not recognized.
C24_OnePairPerDistinctValue ==
    (Composed /\ call.returned) => ReturnsParamsExpected(FALSE)

\* C24 as stated: one pair per value of each list.
C24_OnePairPerListedValue ==
    (Composed /\ call.returned) => ReturnsParamsExpected(TRUE)

\* a status list in which Running comes twice, and a label: two parameters
C24_Witness ==
    /\ Composed /\ call.returned
    /\ call.query_dict
         = PyDict(<<Item("status", PyList(<<PyStr("Running"), PyStr("Running")>>)),
                    Item("label", PyDict(<<Item("Comment1", PyStr("test"))>>))>>)
    /\ call.query_params
         = <<Param("status", "Running"), Param("label", "Comment1:test")>>

(***************************************************************************)
(* Properties of the label validator                                       *)
(***************************************************************************)

\* validate_cromwell_label has ended
Validated ==
    call.name = "validate_cromwell_label" /\ call.pc = "done"

\* the label map the validator went through
LabelMap ==
    IF call.label_object.type = "dict"
    THEN call.label_object.dict
    ELSE call.label_object.text.json

\* the checks that fail: the pattern and the length of the key and of the
\* value of each pair of the map
FailedChecks(pairs) ==
    {c \in (DOMAIN pairs) \X {"key", "value"} \X {"regex", "length"} :
        LET content == IF c[2] = "key" THEN pairs[c[1]].key
                       ELSE pairs[c[1]].value
        IN  IF c[3] = "length" THEN LabelLen(content) > 63
            ELSE ~fullmatch(IF c[2] = "key" THEN _CROMWELL_LABEL_KEY_REGEX
                            ELSE _CROMWELL_LABEL_VALUE_REGEX, content)}

\* the message has a line for this failed check
HasLineFor(err_msg, pairs, c) ==
    \E n \in DOMAIN err_msg :
        /\ err_msg[n].check = c[3]
        /\ err_msg[n].invalid = (IF c[2] = "key" THEN pairs[c[1]].key
                                 ELSE pairs[c[1]].value)
        /\ c[3] = "regex" =>
              err_msg[n].regex = (IF c[2] = "key"
                                  THEN _CROMWELL_LABEL_KEY_REGEX
                                  ELSE _CROMWELL_LABEL_VALUE_REGEX)

\* C25: validate_cromwell_label goes through every key and every value
\* before it fails: it raises one ValueError whose message has one line for
\* every failed check (pattern, or length over 63) of every key and value,
\* not only of the first bad label, and it returns without error exactly
\* when no check fails.
C25_OneLinePerFailedCheck ==
    Validated =>
        LET failed == FailedChecks(LabelMap)
        IN  /\ call.raised = "none" <=> failed = {}
            /\ call.raised \in {"none", "ValueError"}
            /\ Len(call.err_msg) = Cardinality(failed)
            /\ \A c \in failed : HasLineFor(call.err_msg, LabelMap, c)

\* two bad pairs, the second with a key of 64 characters outside the
\* pattern and a value that ends with a dash: four lines in one message
C25_Witness ==
    /\ Validated
    /\ call.label_object.type = "bytes"
    /\ LabelMap = <<Pair(Label(<<"0", "a">>, 0), Label(<< >>, 0)),
                    Pair(Label(<<"A">>, 63), Label(<<"a", "-">>, 0))>>
    /\ call.raised = "ValueError"
    /\ Len(call.err_msg) = 4

(***************************************************************************)
(* Properties of the download of a remote reference                        *)
(***************************************************************************)

\* download_http got a response
Downloaded ==
    /\ call.name = "download_http"
    /\ call.pc = "done"
    /\ call.received.kind = "response"

\* the characters that a string of UTF-8 bytes stands for
RECURSIVE Utf8Decode(_)
Utf8Decode(bytes) ==
    IF bytes = << >> THEN << >>
    ELSE IF Head(bytes) = "61" THEN <<"a">> \o Utf8Decode(Tail(bytes))
    ELSE IF Len(bytes) >= 2 /\ SubSeq(bytes, 1, 2) = <<"c3", "a9">>
    THEN <<"e_acute">> \o Utf8Decode(SubSeq(bytes, 3, Len(bytes)))
    ELSE IF Len(bytes) >= 3 /\ SubSeq(bytes, 1, 3) = <<"e2", "82", "ac">>
    THEN <<"euro">> \o Utf8Decode(SubSeq(bytes, 4, Len(bytes)))
    ELSE <<"undecodable">>

\* the bytes returned are the body of the response in UTF-8
ReturnsBodyAsUtf8 ==
    /\ call.raised = "none"
    /\ call.returned
    /\ Utf8Decode(call.response_str) = call.received.text

\* the call failed with the HTTPError of this response
FailsWithStatus ==
    /\ call.raised = "HTTPError"
    /\ ~call.returned
    /\ call.error_status_code = call.received.status_code

\* C26 (as amended): loading a remote reference fails with an HTTPError
\* carrying the status exactly when the response status satisfies
\* 400 <= status < 600; for every other status, 2xx or not (a 301 or a 304
\* that requests hands over as the response), it returns the body of the
\* response as UTF-8 bytes.
C26_FailsForErrorStatusOnly ==
    Downloaded =>
        LET status == call.received.status_code
        IN  IF 400 <= status /\ status < 600
            THEN FailsWithStatus
            ELSE ReturnsBodyAsUtf8

\* C26 as stated: the load fails whenever the status is not 2xx and
\* returns the body only for a 2xx response.
C26_FailsForEveryNon2xx ==
    Downloaded =>
        LET status == call.received.status_code
        IN  IF 200 <= status /\ status < 300
            THEN ReturnsBodyAsUtf8
            ELSE FailsWithStatus

\* a 301 came back as the response and its body was returned, five bytes
\* for two characters
C26_Witness ==
    /\ Downloaded
    /\ call.received.status_code = 301
    /\ call.received.text = <<"e_acute", "euro">>
    /\ call.returned
    /\ call.response_str = <<"c3", "a9", "e2", "82", "ac">>

(***************************************************************************)
(* Properties of the archive made in memory                                *)
(***************************************************************************)

\* make_zip_in_memory has returned
Zipped == call.name = "make_zip_in_memory" /\ call.pc = "done"

\* name is what follows the last slash of url, the whole url if it has none
IsLastSegmentOf(name, url) ==
    /\ \A i \in DOMAIN name : name[i] # "/"
    /\ \E k \in 0..Len(url) :
          /\ name = SubSeq(url, k + 1, Len(url))
          /\ k = 0 \/ url[k] = "/"

\* ZipFile.open(name).read(): the bytes of the entry of that name, which is
\* the last one written under it
ZipRead(archive, name) ==
    LET last == CHOOSE i \in DOMAIN archive :
                    /\ archive[i].name = name
                    /\ \A j \in DOMAIN archive :
                           archive[j].name = name => j <= i
    IN  archive[last].bytes

\* C27: for every map of names to contents the archive returned by
\* make_zip_in_memory has one entry per pair of the map, each named by the
\* last path segment of its key, and reading the entry of that name back
\* from the archive gives the bytes supplied for the key.
C27_EntriesReadBackAsSupplied ==
    Zipped =>
        /\ Len(call.bytes_buf) = Len(call.url_to_contents)
        /\ \A i \in DOMAIN call.url_to_contents :
              /\ IsLastSegmentOf(call.bytes_buf[i].name,
                                 call.url_to_contents[i].key)
              /\ ZipRead(call.bytes_buf, call.bytes_buf[i].name)
                   = call.url_to_contents[i].value

(***************************************************************************)
(* Properties of the label validation of submit                            *)
(***************************************************************************)

\* submit has ended, its manifest prepared without error
Submitted ==
    /\ call.name = "submit"
    /\ call.pc = "done"
    /\ call.args[1] = "ok"

\* C28: in submit the label validator runs only when validate_labels is
\* true and a label file was supplied; with validate_labels false no label
\* file makes submit raise the error of the validator; and when the
\* validator fails, its error is raised before the request is sent: submit
\* ends with no request made.
C28_ValidatorOnlyOnRequestAndBeforeThePost ==
    Submitted =>
        LET validate_labels == call.args[2]
            label_file == call.args[3]
        IN  /\ call.validated => (validate_labels /\ label_file # "None")
            /\ ~validate_labels => call.result # "ValueError"
            /\ call.result = "ValueError" =>
                  /\ call.validated
                  /\ label_file = "invalid"
                  /\ call.requests = 0
                  /\ call.received = NoReply
            /\ (call.validated /\ label_file = "invalid") =>
                  call.result = "ValueError"

\* labels that the validator rejects, with validate_labels true: the error
\* and no request; and the same labels submitted with validate_labels false
C28_Witness ==
    /\ Submitted
    /\ call.args[2] /\ call.args[3] = "invalid"
    /\ call.validated
    /\ call.result = "ValueError"
    /\ call.requests = 0

\* labels that the validator would reject go out with the request when
\* validate_labels is false
C28_WitnessNotValidated ==
    /\ Submitted
    /\ ~call.args[2] /\ call.args[3] = "invalid"
    /\ ~call.validated
    /\ call.requests = 1

(***************************************************************************)
(* Properties of the rounds of wait                                        *)
(***************************************************************************)

\* the last round begun was gone through to its end: the call is past its
\* for loop, or it ended at the top of the while loop
RoundCompleted(s) ==
    /\ s.round > 0
    /\ s.pc \in {"sleep", "check"} \/ s.outcome \in {"returned", "Exception"}

\* the sleeps made between the rounds begun: one after each round but the
\* last, and one more when the call is back at the top of the while loop
SleepsBetweenRounds(s) ==
    IF s.round = 0 THEN 0
    ELSE IF s.pc = "check" \/ s.outcome = "Exception" THEN s.round
    ELSE s.round - 1

\* the last request of the call was answered with a failure status for an
\* id that had returned Succeeded before
FailedAfterSucceeded(s) ==
    /\ s.log # << >>
    /\ LastResponse(s).status_code = 200
    /\ LastResponse(s).status \in _failed_statuses
    /\ LastResponse(s).uuid \in s.succeeded

\* C29: wait keeps no result of a workflow from one round to the next: the
\* requests of a round go through the ids in list order, one request an
\* id, whatever the ids returned before; a round that was gone through to
\* its end asked for every id; one sleep is made after each such round that
\* did not return; and an id that returned Succeeded and then, in a later
\* round, a failure status makes wait raise WorkflowFailedError.
C29_EveryRoundAsksEveryId ==
    /\ Len(w.log) <= Len(workflow_ids)
    /\ \A k \in DOMAIN w.log : w.log[k].uuid = workflow_ids[k]
    /\ w.pc = "poll" => w.i = Len(w.log) + 1
    /\ w.round > 0 =>
          w.nreq = (w.round - 1) * Len(workflow_ids) + Len(w.log)
    /\ RoundCompleted(w) => Len(w.log) = Len(workflow_ids)
    /\ w.sleeps = SleepsBetweenRounds(w)
    /\ FailedAfterSucceeded(w) =>
          /\ w.outcome = "WorkflowFailedError"
          /\ w.round > 1

\* an id that returned Succeeded in the first round is asked again in the
\* second, returns Failed, and wait raises
C29_Witness ==
    /\ Len(workflow_ids) = 2
    /\ w.round = 2
    /\ w.log # << >>
    /\ LastResponse(w).uuid = workflow_ids[1]
    /\ FailedAfterSucceeded(w)
    /\ w.outcome = "WorkflowFailedError"
    /\ w.sleeps = 1
    /\ w.nreq = 3

\* C30: wait called with an empty list of workflow ids, its timeout not
\* elapsed at the first reading of the clock, returns in its first round
\* with no status request and no sleep; and a call with an empty list never
\* asks for a status nor sleeps.
C30_EmptyListReturnsAtOnce ==
    /\ [](Len(workflow_ids) = 0 =>
            /\ w.nreq = 0 /\ w.sleeps = 0 /\ w.round <= 1
            /\ w.pc \in {"check", "done"}
            /\ w.outcome \in {"running", "returned", "Exception"}
            /\ w.outcome = "returned" => w.round = 1)
    /\ [][(/\ Len(workflow_ids) = 0
           /\ w.pc = "check"
           /\ ~(now - w.start > w.timeout)
           /\ w' # w)
            => (/\ w'.outcome = "returned"
                /\ w'.pc = "done"
                /\ w'.round = 1
                /\ w'.nreq = 0
                /\ w'.sleeps = 0)]_vars

\* the return of a call with no id
C30_Witness ==
    /\ Len(workflow_ids) = 0
    /\ w.outcome = "returned"
    /\ w.round = 1
    /\ w.nreq = 0
    /\ w.sleeps = 0
    /\ w.timeout > 0

====
